---- MODULE Spec2Model ----
(***************************************************************************)
(* A model of pyLinkJS_Drawing.                                            *)
(*                                                                         *)
(* Part I  : the data-source scheduler, LayerController._thread_worker     *)
(*           (layerController.py), one action per step of its loop, with   *)
(*           the fetch workers of the process pool as environment actions, *)
(*           with the shutdown flag in the specification SpecController,   *)
(*           and with the status reader of the refresh thread in           *)
(*           SpecStatus.                                                   *)
(* Part II : LayerRenderer._data_dict_to_df, the merge of the subscribed   *)
(*           datasets into one view, as a pure operator.                   *)
(* Part III: one flight plan (drawingPlugin.py): FlightPlan and its        *)
(*           subclasses OrbitFlightPlan and StaticFlightPlan, one action   *)
(*           per method called on it.                                      *)
(* Part IV : the render objects (drawingPlugin.py): add_child,             *)
(*           calculate_position along the parents, render, set_scale and   *)
(*           point_in_obj; SpecProps tests a built scene for hits between  *)
(*           assignments of the visible and clickable properties.          *)
(* Part V  : one CircleObject (drawingPlugin.py): its radius properties    *)
(*           through construction, render and point_in_obj.                *)
(* Part VI : one command batch, JSDraw (drawingPlugin.py): the calls that  *)
(*           append commands, and render, which sends them.                *)
(* Part VII: LayerController.get_tooltip and the refresh loop of the       *)
(*           viewers, LayerApp.thread_worker (layerController.py).         *)
(* Part VIII: the batch object the plugin hands out (pluginDrawing,        *)
(*           drawingPlugin.py) in the session setups of the viewers,       *)
(*           LayerApp.on_ready (layerController.py).                       *)
(*                                                                         *)
(* Instants are integers (seconds).  A Python None is the value None.      *)
(* The clock advances while the loop sleeps (line 279), by one second or   *)
(* more; a fetch takes any number of loop steps, and of ticks.             *)
(***************************************************************************)
EXTENDS Integers, Sequences, FiniteSets, TLC

\* ------------------------------------------------------------------ bounds
\* the clock stops here
MaxTime == 5
\* time.sleep(1) sleeps at least one second and at most this many
MaxSleep == 2
\* a fetch returns one of the datasets 1..MaxData (0 is the initial data)
MaxData == 2

\* ------------------------------------------------------- values and helpers
None == -1
\* datetime.datetime(1900, 1, 1), an instant before every reading of the clock
Epoch == 0
\* the first reading of the clock
StartTime == 1

Max(a, b) == IF a >= b THEN a ELSE b

Range(seq) == {seq[i] : i \in 1..Len(seq)}

Contains(seq, x) == \E i \in 1..Len(seq) : seq[i] = x

\* a dict's keys after `del d[k]`
Without(seq, x) == SelectSeq(seq, LAMBDA y : y # x)

\* ------------------------------------------------------------ the registry
\* list(self._layer_datasources.keys()): the sources in registration order
SourceOrder == <<"data_coords", "values", "open">>

Sources == Range(SourceOrder)

\* self._layer_datarenderers
Renderers == {"circle", "text"}

\* LayerDataSource.cooldown_period of each registered source
CooldownOf == [s \in Sources |-> IF s = "values" THEN 1 ELSE 5]

\* LayerController.minimum_datasource_cooldown_period
MinimumCooldowns == {3, 6}

\* LayerRenderer.subscribed_datasources of each renderer: the example's
\* subscriptions, disjoint subscriptions, and a list that names a source
\* nobody registered
SubscriptionChoices ==
    { [r \in Renderers |-> <<"data_coords", "values", "open">>],
      [r \in Renderers |-> IF r = "circle" THEN <<"data_coords", "values">>
                                           ELSE <<"open">>],
      [r \in Renderers |-> IF r = "circle" THEN <<"values", "open">>
                                           ELSE <<"open", "unregistered">>] }

VARIABLES
    \* ---- the program's state
    now,                    \* datetime.datetime.now()
    pc,                     \* where the scheduler thread is in its loop
    minimum_datasource_cooldown_period,
    subscribed_datasources, \* renderer name -> list of source names
    next_fire_time,         \* source -> instant or None
    data,                   \* source -> dataset
    data_last_fetch_time,   \* source -> instant or None
    fire_start_time,        \* source -> instant or None
    futures,                \* the keys of the futures dict, in insertion order
    fstate,                 \* source -> state of its future
    fresult,                \* source -> dataset its fetch returned
    keys,                   \* sources the dispatch loop has yet to visit
    todo,                   \* futures the completion loop has yet to visit
    dirty_renderers,        \* set of renderer names
    upd,                    \* dirty renderers the update loop has yet to visit
    \* ---- history of the run, written and never read by the program
    outstanding,            \* source -> fetches submitted and not yet processed
    data_at_dispatch,       \* source -> its dataset when its fetch was submitted
    completion_time,        \* source -> instant its last completion was processed
    last_outcome,           \* source -> how its last processed fetch ended
    completed,              \* sources whose completion this tick processed
    replaced,               \* sources whose dataset this tick replaced
    calls,                  \* renderer -> on_data_changed calls of this tick
    received,               \* renderer -> the data_dict of its last call
    raised,                 \* renderers whose on_data_changed raised this tick
    failed                  \* renderers whose last on_data_changed raised

progVars == <<now, pc, minimum_datasource_cooldown_period, subscribed_datasources,
              next_fire_time, data, data_last_fetch_time, fire_start_time,
              futures, fstate, fresult, keys, todo, dirty_renderers, upd>>

histVars == <<outstanding, data_at_dispatch, completion_time, last_outcome,
              completed, replaced, calls, received, raised, failed>>

schedVars == <<progVars, histVars>>

\* ---- Part I: what the scheduler thread reads and others write or read
VARIABLES
    shutdown,               \* LayerController.shutdown
    status_html             \* source -> what the status refresh last showed of it

ctlVars == <<shutdown, status_html>>

\* ---- Part II: one call of LayerRenderer._data_dict_to_df
VARIABLES
    data_dict,              \* the argument: a list of (key, dataframe), in dict order
    df_result,              \* the dataframe the call returned
    mstatus                 \* "init", then "returned" or "KeyError"

mergeVars == <<data_dict, df_result, mstatus>>

\* ---- Part III: one flight plan
VARIABLES
    clock,                  \* time.time()
    class,                  \* the class of the plan
    fprops,                 \* self.fprops, the forward properties
    props,                  \* self.props, the working properties
    fop,                    \* the last call: its name
    farg,                   \* the last call: its start_time or t argument
    fraised,                \* the last call: "none" or the exception it raised
    eval_tz,                \* the working time the last evaluation computed
    eval_pos,               \* the position the last evaluation returned
    \* history variables
    pre_props,              \* self.props before the last call or tick
    flight,                 \* "none", "forward" or "reverse": the last start that returned
    pause_snap              \* the last pause(): props before it, the clock, what followed

flightVars == <<clock, class, fprops, props, fop, farg, fraised, eval_tz, eval_pos,
                pre_props, flight, pause_snap>>

\* ---- Part IV: render objects
VARIABLES
    objects,                \* the render objects: class, props and flight plan of each
    children,               \* self.children of each object, in dict order
    parent,                 \* self.parent of each object
    rop,                    \* the last call: its name
    rarg,                   \* the last call: the object, the child or instant passed
    rraised,                \* the last call: "none" or the exception it raised
    rret,                   \* the last call: the position it returned
    hit,                    \* the last point_in_obj: the point, what it returned, its tests
    f_before,               \* the batch handed to the last render, as it was
    f,                      \* the batch handed to the last render, as render left it
    \* history variables
    pre_children,           \* self.children of each object before the last call
    added,                  \* the children of each object, in the order they were added
    adds,                   \* the number of add_child calls
    pre_scale               \* the scale of each object before the last set_scale

treeVars == <<objects, children, parent, rop, rarg, rraised, rret, hit, f_before, f,
              pre_children, added, adds, pre_scale>>

\* ---- Part V: one CircleObject
VARIABLES
    circle_props,           \* self.props of the circle: radius, radiusX, radiusY
    circle_call             \* the last call on the circle, and what it returned

circleVars == <<circle_props, circle_call>>

\* ---- Part VI: one command batch
VARIABLES
    commands,               \* self._commands
    sent,                   \* the payloads handed to jsc.eval_js_code since the last
                            \* call that was no render, each with the render's clear
    jcall                   \* the last call on the batch, and self._commands before it

drawVars == <<commands, sent, jcall>>

\* ---- Part VII: LayerController.get_tooltip
VARIABLES
    tooltip_of,             \* what get_tooltip of each registered renderer does
    tooltip                 \* the last get_tooltip call of the controller

tipVars == <<tooltip_of, tooltip>>

\* ---- Part VII: the refresh loop of the viewers
VARIABLES
    tags,                   \* jsc.tag of each connected viewer, its keys
    app_pc,                 \* where the refresh thread is in its loop
    app_at,                 \* "if": at a refresh's test; "for": in its loop over the viewers
    jscs,                   \* the viewers the loop under way has yet to visit
    recent,                 \* the refreshes whose last_..._time is less than a period old
    \* history variables
    passes,                 \* the passes completed in this cycle: refresh and viewer
    failure,                \* the pass that raised in this cycle
    slept,                  \* the sleep that ended the last cycle
    cycles                  \* the number of cycles completed

appVars == <<tags, app_pc, app_at, jscs, recent, passes, failure, slept, cycles>>

\* ---- Part VIII: the plugin's batch in the session setups
VARIABLES
    drawing,                \* pluginDrawing._drawing._commands, each with its issuer
    setup_pc,               \* viewer -> where its on_ready is
    js,                     \* viewer -> the payload the render under way has built
    batches,                \* viewer -> the payloads sent to it, in order
    refreshes               \* the number of refresh passes made

setupVars == <<drawing, setup_pc, js, batches, refreshes>>

\* what each part leaves alone
nonSchedVars == <<mergeVars, flightVars, treeVars, circleVars, drawVars, tipVars, appVars, ctlVars, setupVars>>

nonMergeVars == <<schedVars, flightVars, treeVars, circleVars, drawVars, tipVars, appVars, ctlVars, setupVars>>

nonFlightVars == <<schedVars, mergeVars, treeVars, circleVars, drawVars, tipVars, appVars, ctlVars, setupVars>>

nonTreeVars == <<schedVars, mergeVars, flightVars, circleVars, drawVars, tipVars, appVars, ctlVars, setupVars>>

nonCircleVars == <<schedVars, mergeVars, flightVars, treeVars, drawVars, tipVars, appVars, ctlVars, setupVars>>

nonDrawVars == <<schedVars, mergeVars, flightVars, treeVars, circleVars, tipVars, appVars, ctlVars, setupVars>>

nonTipVars == <<schedVars, mergeVars, flightVars, treeVars, circleVars, drawVars, appVars, ctlVars, setupVars>>

nonAppVars == <<schedVars, mergeVars, flightVars, treeVars, circleVars, drawVars, tipVars, ctlVars, setupVars>>

nonSetupVars == <<schedVars, mergeVars, flightVars, treeVars, circleVars, drawVars, tipVars, appVars, ctlVars>>

vars == <<schedVars, mergeVars, flightVars, treeVars, circleVars, drawVars, tipVars, appVars, ctlVars, setupVars>>

\* ------------------------------------------------------- pieces of the loop
\* line 229 with a test that never ends the loop
ContinuesRegardless(flag) == TRUE

\* line 229: the test of the scheduler's loop
Continues(flag) == ~flag

\* line 246 left out: the marks of the last tick stay
DirtyCarriedOver(marks) == marks

\* line 246: the dirty set a tick starts with
DirtyAtTickStart(marks) == {}

\* line 238 without its test for None
CanFireIgnoringNone(nft, current_time) == current_time >= nft

\* line 238: may the source fire at current_time
CanFire(nft, current_time) == (nft # None) /\ (current_time >= nft)

\* line 240 left out: the next fire time stays as it was
FireTimeOnDispatchKept(nft) == nft

\* line 240: the next fire time of a source whose fetch has just been submitted
FireTimeOnDispatch(nft) == None

\* line 260 with the source's own cooldown only
RecomputedFireTimeNoMinimum(last_fetch, cooldown, minimum) ==
    last_fetch + cooldown

\* line 260: the next fire time after a completion
RecomputedFireTime(last_fetch, cooldown, minimum) ==
    last_fetch + Max(cooldown, minimum)

\* lines 263-265: the renderers a completion of source s marks dirty
Subscribers(s) ==
    {r \in Renderers : Contains(subscribed_datasources[r], s)}

\* lines 270-272: the data_dict handed to renderer r
DataDict(r) ==
    [dn \in Range(subscribed_datasources[r]) |-> data[dn]]

\* line 272 raises KeyError for a name the registry does not hold
DataDictRaises(r) ==
    \E dn \in Range(subscribed_datasources[r]) : dn \notin Sources

Tracked(s) == Contains(futures, s)

\* line 242 with the fetch run on the registered source itself
FetchedInPlace(d, s, df) == [d EXCEPT ![s] = df]

\* line 242: data_fetch is a classmethod and runs in a process of the pool; the
\* datasets of the registered sources are as they were when it has returned
Fetched(d, s, df) == d

\* lines 165-166: what the status message shows of a source, the seconds since
\* its last fetch, or nothing before the first
StatusMessage(last_fetch, t) == IF last_fetch = None THEN None ELSE t - last_fetch

\* ---------------------------------------------------------------- Init
\* LayerDataSource.__init__, LayerController.__init__ and the registration
SchedStart ==
    /\ now = StartTime
    /\ pc = "top"
    /\ minimum_datasource_cooldown_period \in MinimumCooldowns
    /\ subscribed_datasources \in SubscriptionChoices
    /\ next_fire_time \in [Sources -> {None, Epoch}]
    /\ data = [s \in Sources |-> 0]
    /\ data_last_fetch_time = [s \in Sources |-> None]
    /\ fire_start_time = [s \in Sources |-> None]
    /\ futures = <<>>
    /\ fstate = [s \in Sources |-> "none"]
    /\ fresult = [s \in Sources |-> 0]
    /\ keys = <<>>
    /\ todo = <<>>
    /\ dirty_renderers = {}
    /\ upd = {}
    /\ outstanding = [s \in Sources |-> 0]
    /\ data_at_dispatch = [s \in Sources |-> 0]
    /\ completion_time = [s \in Sources |-> None]
    /\ last_outcome = [s \in Sources |-> "none"]
    /\ completed = {}
    /\ replaced = {}
    /\ calls = [r \in Renderers |-> 0]
    /\ received = [r \in Renderers |-> << >>]
    /\ raised = {}
    /\ failed = {}

\* the registry of the example: data_coords is registered with
\* next_fire_time=None
SchedInit ==
    /\ SchedStart
    /\ next_fire_time["data_coords"] = None

\* line 151, and no status shown yet
CtlInit ==
    /\ shutdown = FALSE
    /\ status_html = [s \in Sources |-> None]

\* ------------------------------------------------------------ the scheduler
\* lines 229-231: the loop test and the snapshot of the registry's keys
LoopTop ==
    /\ pc = "top"
    /\ Continues(shutdown)
    /\ pc' = "dispatch"
    /\ keys' = SourceOrder
    /\ completed' = {}
    /\ replaced' = {}
    /\ calls' = [r \in Renderers |-> 0]
    /\ raised' = {}
    /\ UNCHANGED <<now, minimum_datasource_cooldown_period, subscribed_datasources,
                   next_fire_time, data, data_last_fetch_time, fire_start_time,
                   futures, fstate, fresult, todo, dirty_renderers, upd,
                   outstanding, data_at_dispatch, completion_time, last_outcome,
                   received, failed,
                   nonSchedVars>>

\* lines 232-243, one source that fires
DispatchFire ==
    /\ pc = "dispatch"
    /\ keys # <<>>
    /\ LET k == Head(keys) IN
        /\ CanFire(next_fire_time[k], now)
        /\ next_fire_time' = [next_fire_time EXCEPT ![k] = FireTimeOnDispatch(@)]
        /\ fire_start_time' = [fire_start_time EXCEPT ![k] = now]
        /\ futures' = IF Tracked(k) THEN futures ELSE Append(futures, k)
        /\ fstate' = [fstate EXCEPT ![k] = "running"]
        /\ outstanding' = [outstanding EXCEPT ![k] = @ + 1]
        /\ data_at_dispatch' = [data_at_dispatch EXCEPT ![k] = data[k]]
    /\ keys' = Tail(keys)
    /\ UNCHANGED <<now, pc, minimum_datasource_cooldown_period,
                   subscribed_datasources, data, data_last_fetch_time, fresult,
                   todo, dirty_renderers, upd, completion_time, last_outcome,
                   completed, replaced, calls, received, raised, failed,
                   nonSchedVars>>

\* lines 232-238, one source that does not fire
DispatchSkip ==
    /\ pc = "dispatch"
    /\ keys # <<>>
    /\ ~CanFire(next_fire_time[Head(keys)], now)
    /\ keys' = Tail(keys)
    /\ UNCHANGED <<now, pc, minimum_datasource_cooldown_period,
                   subscribed_datasources, next_fire_time, data,
                   data_last_fetch_time, fire_start_time, futures, fstate,
                   fresult, todo, dirty_renderers, upd, histVars,
                   nonSchedVars>>

\* lines 246-247: the dirty set starts empty, the futures' keys are snapshot
DispatchDone ==
    /\ pc = "dispatch"
    /\ keys = <<>>
    /\ pc' = "collect"
    /\ dirty_renderers' = DirtyAtTickStart(dirty_renderers)
    /\ todo' = futures
    /\ UNCHANGED <<now, minimum_datasource_cooldown_period, subscribed_datasources,
                   next_fire_time, data, data_last_fetch_time, fire_start_time,
                   futures, fstate, fresult, keys, upd, histVars,
                   nonSchedVars>>

\* lines 249-250: the future is not ready
CollectNotDone ==
    /\ pc = "collect"
    /\ todo # <<>>
    /\ fstate[Head(todo)] = "running"
    /\ todo' = Tail(todo)
    /\ UNCHANGED <<now, pc, minimum_datasource_cooldown_period,
                   subscribed_datasources, next_fire_time, data,
                   data_last_fetch_time, fire_start_time, futures, fstate,
                   fresult, keys, dirty_renderers, upd, histVars,
                   nonSchedVars>>

\* lines 253-265 for a future that is done.  set_data (lines 143-144) runs only
\* when result() returns; line 260 adds a timedelta to data_last_fetch_time and
\* raises TypeError, outside every try, when that is still None.
CollectDone ==
    /\ pc = "collect"
    /\ todo # <<>>
    /\ LET k == Head(todo)
           ok == fstate[k] = "result"
           last_fetch == IF ok THEN now ELSE data_last_fetch_time[k]
       IN
        /\ fstate[k] \in {"result", "exception"}
        /\ data' = IF ok THEN [data EXCEPT ![k] = fresult[k]] ELSE data
        /\ data_last_fetch_time' = [data_last_fetch_time EXCEPT ![k] = last_fetch]
        /\ futures' = Without(futures, k)
        /\ fstate' = [fstate EXCEPT ![k] = "none"]
        /\ outstanding' = [outstanding EXCEPT ![k] = @ - 1]
        /\ completion_time' = [completion_time EXCEPT ![k] = now]
        /\ last_outcome' = [last_outcome EXCEPT ![k] = fstate[k]]
        /\ completed' = completed \cup {k}
        /\ replaced' = IF ok THEN replaced \cup {k} ELSE replaced
        /\ IF last_fetch = None
           THEN /\ pc' = "crashed"
                /\ UNCHANGED <<next_fire_time, dirty_renderers, todo>>
           ELSE /\ pc' = pc
                /\ next_fire_time' =
                       [next_fire_time EXCEPT ![k] =
                           RecomputedFireTime(last_fetch, CooldownOf[k],
                                              minimum_datasource_cooldown_period)]
                /\ dirty_renderers' = dirty_renderers \cup Subscribers(k)
                /\ todo' = Tail(todo)
    /\ UNCHANGED <<now, minimum_datasource_cooldown_period, subscribed_datasources,
                   fire_start_time, fresult, keys, upd, data_at_dispatch, calls,
                   received, raised, failed, nonSchedVars>>

\* line 268: list(dirty_renderers)
CollectEnd ==
    /\ pc = "collect"
    /\ todo = <<>>
    /\ pc' = "update"
    /\ upd' = dirty_renderers
    /\ UNCHANGED <<now, minimum_datasource_cooldown_period, subscribed_datasources,
                   next_fire_time, data, data_last_fetch_time, fire_start_time,
                   futures, fstate, fresult, keys, todo, dirty_renderers,
                   histVars,
                   nonSchedVars>>

\* lines 269-276 for one dirty renderer whose data_dict can be built; a set is
\* iterated in no fixed order; on_data_changed returns or raises, and a raise
\* is caught and logged
UpdateCall ==
    /\ pc = "update"
    /\ \E name \in upd :
        /\ ~DataDictRaises(name)
        /\ upd' = upd \ {name}
        /\ calls' = [calls EXCEPT ![name] = @ + 1]
        /\ received' = [received EXCEPT ![name] = DataDict(name)]
        /\ \E outcome \in {"returns", "raises"} :
              /\ raised' = IF outcome = "raises" THEN raised \cup {name} ELSE raised
              /\ failed' = IF outcome = "raises" THEN failed \cup {name}
                                                 ELSE failed \ {name}
    /\ UNCHANGED <<now, pc, minimum_datasource_cooldown_period,
                   subscribed_datasources, next_fire_time, data,
                   data_last_fetch_time, fire_start_time, futures, fstate,
                   fresult, keys, todo, dirty_renderers, outstanding,
                   data_at_dispatch, completion_time, last_outcome, completed,
                   replaced,
                   nonSchedVars>>

\* lines 271-272 for a renderer that names a source the registry does not hold:
\* the KeyError is raised outside the try and ends the thread
UpdateKeyError ==
    /\ pc = "update"
    /\ \E name \in upd : DataDictRaises(name)
    /\ pc' = "crashed"
    /\ UNCHANGED <<now, minimum_datasource_cooldown_period, subscribed_datasources,
                   next_fire_time, data, data_last_fetch_time, fire_start_time,
                   futures, fstate, fresult, keys, todo, dirty_renderers, upd,
                   histVars,
                   nonSchedVars>>

UpdateEnd ==
    /\ pc = "update"
    /\ upd = {}
    /\ pc' = "sleep"
    /\ UNCHANGED <<now, minimum_datasource_cooldown_period, subscribed_datasources,
                   next_fire_time, data, data_last_fetch_time, fire_start_time,
                   futures, fstate, fresult, keys, todo, dirty_renderers, upd,
                   histVars,
                   nonSchedVars>>

\* line 279: time.sleep(1)
Sleep ==
    /\ pc = "sleep"
    /\ \E d \in 1..MaxSleep :
        /\ now + d <= MaxTime
        /\ now' = now + d
    /\ pc' = "top"
    /\ UNCHANGED <<minimum_datasource_cooldown_period, subscribed_datasources,
                   next_fire_time, data, data_last_fetch_time, fire_start_time,
                   futures, fstate, fresult, keys, todo, dirty_renderers, upd,
                   histVars,
                   nonSchedVars>>

\* ------------------------------------------------------------- the workers
\* line 242: data_fetch runs in a pool process and returns a dataset
FetchReturns ==
    \E s \in Sources, df \in 1..MaxData :
        /\ fstate[s] = "running"
        /\ fstate' = [fstate EXCEPT ![s] = "result"]
        /\ fresult' = [fresult EXCEPT ![s] = df]
        /\ data' = Fetched(data, s, df)
        /\ UNCHANGED <<now, pc, minimum_datasource_cooldown_period,
                       subscribed_datasources, next_fire_time,
                       data_last_fetch_time, fire_start_time, futures, keys,
                       todo, dirty_renderers, upd, histVars,
                   nonSchedVars>>

\* line 242: data_fetch raises
FetchRaises ==
    \E s \in Sources :
        /\ fstate[s] = "running"
        /\ fstate' = [fstate EXCEPT ![s] = "exception"]
        /\ UNCHANGED <<now, pc, minimum_datasource_cooldown_period,
                       subscribed_datasources, next_fire_time, data,
                       data_last_fetch_time, fire_start_time, futures, fresult,
                       keys, todo, dirty_renderers, upd, histVars,
                   nonSchedVars>>

\* ------------------------------------------ the flag and the status reader
\* an owner of the controller sets its shutdown attribute
SetShutdown ==
    /\ ~shutdown
    /\ shutdown' = TRUE
    /\ UNCHANGED <<status_html, schedVars, mergeVars, flightVars, treeVars,
                   circleVars, drawVars, tipVars, appVars, setupVars>>

\* line 229 when the flag is set: the loop ends, and the with statement of
\* line 228 leaves the executor, which cancels no fetch
LoopExit ==
    /\ pc = "top"
    /\ ~Continues(shutdown)
    /\ pc' = "exited"
    /\ UNCHANGED <<now, minimum_datasource_cooldown_period, subscribed_datasources,
                   next_fire_time, data, data_last_fetch_time, fire_start_time,
                   futures, fstate, fresult, keys, todo, dirty_renderers, upd,
                   histVars,
                   nonSchedVars>>

\* lines 188-193, called by the refresh thread (layerController.py line 475):
\* the status message of every source
StatusRead ==
    /\ status_html' = [s \in Sources |-> StatusMessage(data_last_fetch_time[s], now)]
    /\ status_html' # status_html
    /\ UNCHANGED <<shutdown, schedVars, mergeVars, flightVars, treeVars,
                   circleVars, drawVars, tipVars, appVars, setupVars>>

\* the scheduler thread, the workers and the owner of the controller
ControllerNext ==
    \/ LoopTop
    \/ DispatchFire
    \/ DispatchSkip
    \/ DispatchDone
    \/ CollectNotDone
    \/ CollectDone
    \/ CollectEnd
    \/ UpdateCall
    \/ UpdateKeyError
    \/ UpdateEnd
    \/ Sleep
    \/ FetchReturns
    \/ FetchRaises
    \/ SetShutdown
    \/ LoopExit

\* the scheduler thread, the workers and the status reader
StatusNext ==
    \/ LoopTop
    \/ DispatchFire
    \/ DispatchSkip
    \/ DispatchDone
    \/ CollectNotDone
    \/ CollectDone
    \/ CollectEnd
    \/ UpdateCall
    \/ UpdateKeyError
    \/ UpdateEnd
    \/ Sleep
    \/ FetchReturns
    \/ FetchRaises
    \/ StatusRead

\* the scheduler's steps and the workers'
SchedNext ==
    \/ LoopTop
    \/ DispatchFire
    \/ DispatchSkip
    \/ DispatchDone
    \/ CollectNotDone
    \/ CollectDone
    \/ CollectEnd
    \/ UpdateCall
    \/ UpdateKeyError
    \/ UpdateEnd
    \/ Sleep
    \/ FetchReturns
    \/ FetchRaises

\* ============================================================ Part I, claims
Subscribes(r, s) == Contains(subscribed_datasources[r], s)

\* the cooldown the scheduler applies to source s
EffectiveCooldown(s) ==
    IF CooldownOf[s] >= minimum_datasource_cooldown_period
    THEN CooldownOf[s]
    ELSE minimum_datasource_cooldown_period

\* C1: at most one fetch of a source is outstanding at any time, and from the
\* dispatch of a fetch until its completion has been processed the source's
\* next_fire_time is None (and the fetch is the one the futures table tracks)
C1_OneFetchInFlight ==
    \A s \in Sources :
        /\ outstanding[s] \in {0, 1}
        /\ (outstanding[s] = 1) <=> Tracked(s)
        /\ (outstanding[s] = 1) => next_fire_time[s] = None

\* C1: the dispatch loop of a later tick visits a source whose fetch is still
\* running
C1_Witness ==
    \E s \in Sources :
        /\ pc = "dispatch" /\ keys # << >> /\ Head(keys) = s
        /\ outstanding[s] = 1 /\ fstate[s] = "running"
        /\ now > fire_start_time[s]

\* C2: once a successful completion of a source has been processed at t0 (and
\* until the source is dispatched again) its next_fire_time is
\* t0 + max(cooldown_period, minimum cooldown), t0 being the fetch time stamped
\* by set_data: t0 + 5 for cooldown 5 and a minimum <= 5, t0 + minimum above
C2_NextFireAfterSuccess ==
    \A s \in Sources :
        (last_outcome[s] = "result" /\ ~Tracked(s)) =>
            /\ data_last_fetch_time[s] = completion_time[s]
            /\ next_fire_time[s] = completion_time[s] + EffectiveCooldown(s)
            /\ (CooldownOf[s] = 5 /\ minimum_datasource_cooldown_period <= 5)
                   => next_fire_time[s] = completion_time[s] + 5
            /\ (CooldownOf[s] = 5 /\ minimum_datasource_cooldown_period > 5)
                   => next_fire_time[s] =
                          completion_time[s] + minimum_datasource_cooldown_period

\* C2: a source of cooldown 5 has completed under a minimum cooldown of 6
C2_Witness ==
    /\ minimum_datasource_cooldown_period = 6
    /\ last_outcome["open"] = "result" /\ ~Tracked("open")
    /\ CooldownOf["open"] = 5
    /\ completion_time["open"] > StartTime
    /\ next_fire_time["open"] = completion_time["open"] + 6

\* C3: after the completion of a fetch that raised has been processed, the
\* source holds the dataset it held when the fetch was dispatched and its
\* next_fire_time is set again, whether or not it was fetched before
C3_FailedFetchReschedules ==
    \A s \in Sources :
        (last_outcome[s] = "exception" /\ ~Tracked(s)) =>
            /\ data[s] = data_at_dispatch[s]
            /\ next_fire_time[s] # None

\* C4: a source is not dispatched earlier than the processing time of its last
\* completion plus max(cooldown_period, minimum cooldown)
C4_NoDispatchBeforeCooldown ==
    \A s \in Sources :
        (Tracked(s) /\ completion_time[s] # None) =>
            fire_start_time[s] >= completion_time[s] + EffectiveCooldown(s)

\* C5: in a tick in which at least one source a renderer subscribes to has
\* completed, the renderer's on_data_changed is called exactly once, with the
\* installed data of every source of its subscription list
C5_ExactlyOneRecompute ==
    /\ \A r \in Renderers : calls[r] <= 1
    /\ pc \in {"sleep", "crashed"} =>
          \A r \in Renderers :
              (\E s \in completed : Subscribes(r, s)) =>
                  /\ calls[r] = 1
                  /\ DOMAIN received[r] = Range(subscribed_datasources[r])
                  /\ \A dn \in DOMAIN received[r] : received[r][dn] = data[dn]

\* C6: a renderer's on_data_changed is called in a tick only if the dataset of
\* one of its subscribed sources was replaced in that tick
C6_NotifiedOnlyOnChange ==
    \A r \in Renderers :
        calls[r] > 0 => \E s \in replaced : Subscribes(r, s)

\* C7: a source whose next_fire_time is None and that has no fetch in flight
\* is not dispatched by any step, and no step changes its data, its
\* data_last_fetch_time or its next_fire_time
C7_DisabledSourceUntouched ==
    [][\A s \in Sources :
          (next_fire_time[s] = None /\ ~Tracked(s)) =>
              /\ next_fire_time'[s] = None
              /\ ~Contains(futures', s)
              /\ outstanding'[s] = outstanding[s]
              /\ fire_start_time'[s] = fire_start_time[s]
              /\ data'[s] = data[s]
              /\ data_last_fetch_time'[s] = data_last_fetch_time[s]]_vars

\* C7: the dispatch loop visits, ticks after the start and after other sources
\* have been fetched, the source registered with next_fire_time=None
C7_Witness ==
    /\ pc = "dispatch" /\ keys # << >> /\ Head(keys) = "data_coords"
    /\ next_fire_time["data_coords"] = None /\ ~Tracked("data_coords")
    /\ fire_start_time["data_coords"] = None
    /\ data["data_coords"] = 0
    /\ now >= StartTime + 3
    /\ \E s \in Sources : completion_time[s] # None

\* C8: in a tick in which the on_data_changed of a dirty renderer has raised,
\* the scheduler thread lives on and, by the end of the tick, every dirty
\* renderer has been recomputed
C8_RaisingRendererIsolated ==
    raised # {} =>
        /\ pc # "crashed"
        /\ pc = "sleep" => \A r \in dirty_renderers : calls[r] = 1

\* C9: a dirty renderer whose subscription list names a source the registry
\* does not hold does not end the scheduler thread: its recompute is not what
\* the thread dies of
C9_UnregisteredSourceTolerated ==
    \A r \in Renderers :
        (DataDictRaises(r) /\ r \in upd) => pc # "crashed"

\* C31: once the shutdown flag is set, the loop ends the next time it tests
\* the flag (line 229) and dispatches nothing after that; the flag stays set;
\* and neither setting the flag nor leaving the loop changes the state of a
\* fetch in flight or drops it from the futures
C31_ShutdownEndsLoop ==
    [][/\ (shutdown /\ pc = "top" /\ pc' # "top") => pc' = "exited"
       /\ pc = "exited" =>
             /\ pc' = "exited"
             /\ futures' = futures
             /\ outstanding' = outstanding
             /\ fire_start_time' = fire_start_time
       /\ shutdown => shutdown'
       /\ (shutdown' # shutdown \/ (pc' = "exited" /\ pc # "exited")) =>
             /\ fstate' = fstate
             /\ futures' = futures]_vars

\* C31: the loop has ended, ticks after the start, while a fetch is in flight
C31_Witness ==
    /\ pc = "exited"
    /\ shutdown
    /\ now > StartTime
    /\ \E s \in Sources : Tracked(s) /\ fstate[s] = "running" /\ outstanding[s] = 1

\* a fetch of another source than s is outstanding and not done
SlowBeside(s) == \E w \in Sources \ {s} : Tracked(w) /\ fstate[w] = "running"

\* C32: the loop never waits for a fetch.  A source whose fetch is outstanding
\* and not done is left untouched by every step; and while such a fetch is
\* outstanding, the dispatch loop submits every other source that may fire, and
\* the completion loop does not end before it has installed every other result
\* that is ready.
C32_NeverWaitsForFetch ==
    [][/\ \A s \in Sources :
             (Tracked(s) /\ fstate[s] = "running" /\ fstate'[s] = "running") =>
                 /\ data'[s] = data[s]
                 /\ data_last_fetch_time'[s] = data_last_fetch_time[s]
                 /\ next_fire_time'[s] = next_fire_time[s]
                 /\ Contains(futures', s)
       /\ (pc = "dispatch" /\ keys # << >> /\ keys' = Tail(keys)) =>
             LET k == Head(keys) IN
                 (SlowBeside(k) /\ next_fire_time[k] # None /\ now >= next_fire_time[k])
                     => (Contains(futures', k) /\ fstate'[k] = "running")
       /\ (pc = "collect" /\ pc' # "collect") =>
             \A s \in Range(todo) :
                 (SlowBeside(s) /\ fstate[s] = "result") =>
                     (~Contains(futures', s) /\ data'[s] = fresult[s])]_vars

\* the step is one of the scheduler thread's that write a source: the dispatch
\* of line 240, or the processing of a completion, lines 255-260
WritingStep ==
    \/ pc = "dispatch" /\ keys # << >> /\ keys' = Tail(keys)
    \/ pc = "collect" /\ todo # << >> /\ (todo' = Tail(todo) \/ pc' = "crashed")

\* C33: a step that changes a source's data, data_last_fetch_time or
\* next_fire_time is a step of the scheduler thread: it is not the return of a
\* fetch worker and not a read of the status refresh
C33_OnlySchedulerWrites ==
    [][(data' # data \/ data_last_fetch_time' # data_last_fetch_time
           \/ next_fire_time' # next_fire_time) =>
          /\ WritingStep
          /\ \A s \in Sources : fstate[s] = "running" => fstate'[s] = "running"
          /\ status_html' = status_html]_vars

\* C33: the status refresh has read a source the scheduler had written, and
\* reads again while the scheduler is in its completion loop and a worker runs
C33_Witness ==
    /\ \E s \in Sources : status_html[s] # None /\ data[s] # 0
    /\ pc = "collect"
    /\ \E w \in Sources : fstate[w] = "running"
    /\ \E d \in Sources : fstate[d] = "result"

\* the renderers subscribed to a source whose completion this tick processed
MarkedThisTick == {r \in Renderers : \E s \in completed : Subscribes(r, s)}

\* C40: dirty marks do not carry over between ticks: from line 246 on, the
\* dirty set of a tick holds the subscribers of the completions this tick has
\* processed and nothing else, and a renderer is called in a tick only if one
\* of its subscribed sources completed in this tick, whether or not its last
\* on_data_changed raised
C40_DirtyMarksPerTick ==
    /\ pc \in {"collect", "update", "sleep"} => dirty_renderers = MarkedThisTick
    /\ \A r \in Renderers : calls[r] > 0 => r \in MarkedThisTick

\* C40: a tick ends in which a source completed and its subscriber was called,
\* and a renderer whose on_data_changed raised in an earlier tick was not
C40_Witness ==
    /\ pc = "sleep"
    /\ completed # {}
    /\ \E r \in Renderers : calls[r] = 1
    /\ \E r \in failed : calls[r] = 0 /\ r \notin raised /\ received[r] # << >>

\* =================================================================== Part II
\* LayerRenderer._data_dict_to_df.  A dataframe is its index (the row
\* identifiers in row order, repeats allowed) and its columns (name -> the
\* values in row order).  A cell's value names the dataframe, row and column it
\* was read from, so that the origin of every merged value can be told.

\* ------------------------------------------------------------------ bounds
\* rows of a subscribed dataframe other than data_coords
MaxRows == 2

Ids == {"A", "B", "C"}

NaN == <<"NaN", 0, "">>

\* the column sets a dataframe may have
ColumnSets == {{}, {"X"}}

\* the keys of a data_dict in their possible orders: the coordinate source
\* first (the example's subscription order), in the middle, last, or absent
DictKeyOrders ==
    { <<"data_coords">>,
      <<"data_coords", "values">>,
      <<"values", "data_coords">>,
      <<"data_coords", "values", "open">>,
      <<"values", "data_coords", "open">>,
      <<"values", "open", "data_coords">>,
      <<"values", "open">> }

\* the index of data_coords: distinct identifiers, or one repeated
CoordIndexes ==
    { <<"A", "B", "C">>, <<"B", "A">>, <<"C">>, <<"A", "B", "A">>, << >> }

SeqsUpTo(S, n) == UNION {[1..m -> S] : m \in 0..n}

Frame(k, index, cs) ==
    [index   |-> index,
     columns |-> [c \in cs |-> [i \in 1..Len(index) |-> <<k, i, c>>]]]

FramesOf(k) ==
    { Frame(k, index, cs) :
        index \in (IF k = "data_coords" THEN CoordIndexes ELSE SeqsUpTo(Ids, MaxRows)),
        cs \in ColumnSets }

EmptyFrame == [index |-> << >>, columns |-> [c \in {} |-> << >>]]

Entry(k, df) == [key |-> k, df |-> df]

\* some dict with the keys ks, in that order, is the argument
IsDictOf(dd, ks) ==
    \/ /\ Len(ks) = 1
       /\ \E f1 \in FramesOf(ks[1]) : dd = <<Entry(ks[1], f1)>>
    \/ /\ Len(ks) = 2
       /\ \E f1 \in FramesOf(ks[1]), f2 \in FramesOf(ks[2]) :
             dd = <<Entry(ks[1], f1), Entry(ks[2], f2)>>
    \/ /\ Len(ks) = 3
       /\ \E f1 \in FramesOf(ks[1]), f2 \in FramesOf(ks[2]), f3 \in FramesOf(ks[3]) :
             dd = <<Entry(ks[1], f1), Entry(ks[2], f2), Entry(ks[3], f3)>>

\* ------------------------------------------------------------ the function
\* line 62 with keep='first'
KeptPosFirst(index, id) ==
    CHOOSE i \in 1..Len(index) :
        /\ index[i] = id
        /\ \A j \in 1..Len(index) : index[j] = id => j >= i

\* line 62: ~index.duplicated(keep='last') keeps, of the rows of one
\* identifier, the last
KeptPos(index, id) ==
    CHOOSE i \in 1..Len(index) :
        /\ index[i] = id
        /\ \A j \in 1..Len(index) : index[j] = id => j <= i

\* lines 52-55: the union of the indexes, repeats dropped
IndexUnion(dd) == UNION {Range(dd[i].df.index) : i \in 1..Len(dd)}

\* line 64, df[c] = df_new[c]: the column is aligned on df's index; a row
\* df_new does not hold gets NaN
AlignedColumn(df_new, c, idx) ==
    [id \in idx |->
        IF id \in Range(df_new.index)
        THEN df_new.columns[c][KeptPos(df_new.index, id)]
        ELSE NaN]

\* lines 61-64 with a column df already has kept instead of replaced
AssignColumnsKeepingEarlier(cols, df_new, idx) ==
    [c \in (DOMAIN cols) \cup (DOMAIN df_new.columns) |->
        IF c \in DOMAIN cols
        THEN cols[c]
        ELSE AlignedColumn(df_new, c, idx)]

\* lines 61-64 for one dataframe: each of its columns replaces df's
AssignColumns(cols, df_new, idx) ==
    [c \in (DOMAIN cols) \cup (DOMAIN df_new.columns) |->
        IF c \in DOMAIN df_new.columns
        THEN AlignedColumn(df_new, c, idx)
        ELSE cols[c]]

\* lines 58-64: the dataframes are added in the order of the dict's keys
RECURSIVE MergedColumns(_, _)
MergedColumns(dd, idx) ==
    IF dd = << >>
    THEN [c \in {} |-> << >>]
    ELSE AssignColumns(MergedColumns(SubSeq(dd, 1, Len(dd) - 1), idx),
                       dd[Len(dd)].df, idx)

HasKey(dd, k) == \E i \in 1..Len(dd) : dd[i].key = k

Get(dd, k) == dd[CHOOSE i \in 1..Len(dd) : dd[i].key = k].df

\* line 67, df.loc[data_dict['data_coords'].index]: the rows of the
\* coordinate source's identifiers, in its order
Loc(cols, labels) ==
    [index   |-> labels,
     columns |-> [c \in DOMAIN cols |->
                     [i \in 1..Len(labels) |-> cols[c][labels[i]]]]]

\* lines 47-70
DataDictToDf(dd) ==
    Loc(MergedColumns(dd, IndexUnion(dd)), Get(dd, "data_coords").index)

\* line 67 raises KeyError when the dict has no 'data_coords'
DataDictToDfRaises(dd) == dd # << >> /\ ~HasKey(dd, "data_coords")

\* ------------------------------------------------------------- the harness
MergeInit ==
    /\ \E ks \in DictKeyOrders : IsDictOf(data_dict, ks)
    /\ df_result = EmptyFrame
    /\ mstatus = "init"

\* lines 47-70, a call that returns
MergeReturns ==
    /\ mstatus = "init"
    /\ ~DataDictToDfRaises(data_dict)
    /\ df_result' = IF data_dict = << >> THEN EmptyFrame ELSE DataDictToDf(data_dict)
    /\ mstatus' = "returned"
    /\ UNCHANGED <<data_dict, nonMergeVars>>

\* lines 47-67, a call that raises
MergeRaises ==
    /\ mstatus = "init"
    /\ DataDictToDfRaises(data_dict)
    /\ mstatus' = "KeyError"
    /\ UNCHANGED <<data_dict, df_result, nonMergeVars>>

MergeNext ==
    \/ MergeReturns
    \/ MergeRaises

\* =========================================================== Part II, claims
Cols == UNION ColumnSets

\* the entries of the dict whose dataframe has column c
Providers(dd, c) == {i \in 1..Len(dd) : c \in DOMAIN dd[i].df.columns}

\* the entries of the dict whose dataframe has column c and a row id
Definers(dd, c, id) == {i \in Providers(dd, c) : id \in Range(dd[i].df.index)}

Latest(S) == CHOOSE m \in S : \A x \in S : x <= m

\* the value entry i of the dict gives column c in its last row of identifier id
CellOf(dd, i, c, id) ==
    <<dd[i].key, Latest({p \in 1..Len(dd[i].df.index) : dd[i].df.index[p] = id}), c>>

\* the merged view has the rows of the coordinate source, in its order
RowsAreCoordRows ==
    df_result.index = Get(data_dict, "data_coords").index

\* C10, as stated: the merged view of a dict that holds data_coords has exactly
\* the row identifiers of the coordinate source, and when two sources both
\* define attribute X for a row, the merged value is that of the one that
\* comes later in the dict
C10_LaterDefinerWins ==
    (mstatus = "returned" /\ HasKey(data_dict, "data_coords")) =>
        /\ RowsAreCoordRows
        /\ \A c \in Cols, p \in 1..Len(df_result.index) :
              LET id == df_result.index[p]
                  D  == Definers(data_dict, c, id)
              IN  Cardinality(D) >= 2 =>
                      /\ c \in DOMAIN df_result.columns
                      /\ df_result.columns[c][p] = CellOf(data_dict, Latest(D), c, id)

\* C10, amended: the merged view of a dict that holds data_coords has exactly
\* the row identifiers of the coordinate source, in its order; its columns are
\* those of the sources; and the merged value of attribute X for a row is that
\* of the last source in the dict that provides X: its value for the row when
\* it holds the row (so of two sources that define X for a row the later wins
\* when no source after it provides X), a missing value when it does not
C10_LastProviderWins ==
    (mstatus = "returned" /\ HasKey(data_dict, "data_coords")) =>
        /\ RowsAreCoordRows
        /\ DOMAIN df_result.columns = {c \in Cols : Providers(data_dict, c) # {}}
        /\ \A c \in DOMAIN df_result.columns, p \in 1..Len(df_result.index) :
              LET id   == df_result.index[p]
                  last == Latest(Providers(data_dict, c))
              IN  df_result.columns[c][p] =
                      IF id \in Range(data_dict[last].df.index)
                      THEN CellOf(data_dict, last, c, id)
                      ELSE NaN

\* C10: sources with rows {A,B} and {B,C}, both with attribute X, have been
\* merged over the coordinate rows A, B, C: the view has rows A, B, C and the
\* X of B is the later source's
C10_Witness ==
    /\ mstatus = "returned"
    /\ data_dict = << Entry("data_coords", Frame("data_coords", <<"A", "B", "C">>, {})),
                      Entry("values", Frame("values", <<"A", "B">>, {"X"})),
                      Entry("open", Frame("open", <<"B", "C">>, {"X"})) >>
    /\ df_result.index = <<"A", "B", "C">>
    /\ df_result.columns["X"][2] = <<"open", 1, "X">>

\* the value source i of the dict gives column c in row position p
Cell(dd, i, c, p) == <<dd[i].key, p, c>>

\* the last position of identifier id in the index of source i
LastRow(dd, i, id) ==
    Latest({p \in 1..Len(dd[i].df.index) : dd[i].df.index[p] = id})

\* C36: an attribute is merged column by column.  The view has column X iff
\* some source provides X, and then the X of every row comes from the last
\* source in the dict that provides X: the value of that source's last row of
\* the identifier, and a missing value when that source does not hold the row,
\* also when an earlier source defines X for it; so an attribute of a single
\* provider keeps that provider's values
C36_ColumnFromLastProvider ==
    (mstatus = "returned" /\ HasKey(data_dict, "data_coords")) =>
        \A c \in Cols :
            LET P == Providers(data_dict, c) IN
            IF P = {} THEN c \notin DOMAIN df_result.columns
            ELSE /\ c \in DOMAIN df_result.columns
                 /\ \A p \in 1..Len(df_result.index) :
                       LET id   == df_result.index[p]
                           last == Latest(P)
                           held == id \in Range(data_dict[last].df.index)
                       IN  /\ held => df_result.columns[c][p]
                                         = Cell(data_dict, last, c, LastRow(data_dict, last, id))
                           /\ ~held => df_result.columns[c][p] = NaN
                           /\ (P = {last} /\ held) =>
                                  df_result.columns[c][p][1] = data_dict[last].key

\* C36: X of row A is defined by the earlier source only and is missing in
\* the view; X of row B is the later source's, of the last of its two rows B
C36_Witness ==
    /\ mstatus = "returned"
    /\ data_dict = << Entry("data_coords", Frame("data_coords", <<"A", "B", "C">>, {})),
                      Entry("values", Frame("values", <<"A", "B">>, {"X"})),
                      Entry("open", Frame("open", <<"B", "B">>, {"X"})) >>
    /\ df_result.columns["X"][1] = NaN
    /\ df_result.columns["X"][2] = <<"open", 2, "X">>
    /\ df_result.columns["X"][3] = NaN

\* ================================================================== Part III
\* One flight plan of drawingPlugin.py.  self.props and self.fprops are
\* records over every key the code reads; a key the dict does not hold has the
\* value Absent, a list it does not hold is the empty tuple.  Instants and
\* durations are integers (seconds); angles are multiples of 90 degrees, for
\* which the cosine and the sine are integers.

\* ------------------------------------------------------------------ bounds
\* the last instant of the clock
MaxClock == 3

\* how far ahead of the clock an explicit start_time may lie
MaxAhead == 2

\* ------------------------------------------------------------------ values
\* a key that is not in the dict
Absent == -2

\* the default of the start_time parameter, lines 357, 364 and 730
NoStartGiven == -99999999

\* time.time() when the plan is constructed
FirstClock == 1

Min(a, b) == IF a <= b THEN a ELSE b

\* the instants an evaluation may ask for
Times == 0..(MaxClock + MaxAhead)

\* the duration argument of the constructor
Durations == {None, 2}

FlightClasses == {"FlightPlan", "OrbitFlightPlan", "StaticFlightPlan"}

\* self.props = {}, line 263
EmptyProps ==
    [start_time |-> Absent, pause_time |-> Absent, duration |-> Absent,
     end_time |-> Absent, center |-> << >>, vector_start |-> << >>,
     vector |-> << >>, start_position |-> << >>]

\* no keyword argument
NoKwargs ==
    [end_time |-> Absent, center |-> << >>, vector_start |-> << >>,
     vector |-> << >>, start_position |-> << >>]

\* the keyword arguments an OrbitFlightPlan is constructed with, lines 697-707
OrbitKwargs ==
    { NoKwargs,
      [NoKwargs EXCEPT !.center = <<10, 20>>, !.vector_start = <<90, 5>>,
                       !.vector = <<90, 1>>],
      [NoKwargs EXCEPT !.center = <<10, 20>>, !.vector_start = <<90, 5>>,
                       !.vector = <<90, 1>>, !.end_time = 9] }

\* the keyword arguments a StaticFlightPlan is constructed with, lines 747-752
StaticKwargs ==
    { NoKwargs, [NoKwargs EXCEPT !.start_position = <<3, 4>>] }

\* the constructor calls
Constructions ==
    {[class |-> "FlightPlan", duration |-> d, kwargs |-> NoKwargs] : d \in Durations}
    \cup {[class |-> "OrbitFlightPlan", duration |-> d, kwargs |-> kw] :
              d \in Durations, kw \in OrbitKwargs}
    \cup {[class |-> "StaticFlightPlan", duration |-> None, kwargs |-> kw] :
              kw \in StaticKwargs}

\* ------------------------------------------------------------ the functions
\* lines 257-260 and self.fprops.update(kwargs.copy()), lines 707 and 752
BaseFprops(duration, kw) ==
    [start_time |-> None, pause_time |-> None, duration |-> duration,
     end_time |-> kw.end_time, center |-> kw.center,
     vector_start |-> kw.vector_start, vector |-> kw.vector,
     start_position |-> kw.start_position]

\* line 302: the list the dict holds, or the default
SetDefaultPropList(fp, key, val) ==
    IF fp[key] = << >> THEN [fp EXCEPT ![key] = val] ELSE fp

\* self.fprops at the end of __init__, lines 245-260, 697-710, 747-753
ConstructedFprops(c) ==
    CASE c.class = "FlightPlan" -> BaseFprops(c.duration, c.kwargs)
      [] c.class = "OrbitFlightPlan" ->
             SetDefaultPropList(
               SetDefaultPropList(
                 SetDefaultPropList(BaseFprops(c.duration, c.kwargs),
                                    "center", <<0, 0>>),
                 "vector_start", <<0, 0>>),
               "vector", <<0, 0>>)
      [] c.class = "StaticFlightPlan" ->
             SetDefaultPropList(BaseFprops(c.duration, c.kwargs),
                                "start_position", <<0, 0, 10>>)

\* lines 359-362: the working properties of a forward flight
ForwardProps(fp, start_time, current_time) ==
    [fp EXCEPT !.start_time = IF start_time = NoStartGiven THEN current_time
                              ELSE start_time]

\* self.props at the end of __init__: FlightPlan starts nothing (line 263),
\* OrbitFlightPlan starts with start_time=None (line 712), StaticFlightPlan
\* starts now (line 756)
ConstructedProps(c, current_time) ==
    CASE c.class = "FlightPlan" -> EmptyProps
      [] c.class = "OrbitFlightPlan" ->
             ForwardProps(ConstructedFprops(c), None, current_time)
      [] c.class = "StaticFlightPlan" ->
             ForwardProps(ConstructedFprops(c), NoStartGiven, current_time)

\* lines 281-299: the lookups and the arithmetic that raise, all turned into
\* Exception by the except clause
CalculateTimeFromZeroRaises(p, t) ==
    \/ p.pause_time = Absent
    \/ p.pause_time # None /\ p.start_time \in {Absent, None}
    \/ p.pause_time = None /\ p.start_time = Absent
    \/ /\ p.pause_time = None
       /\ p.start_time \notin {Absent, None}
       /\ t > p.start_time
       /\ p.duration = Absent

\* the working time without the cap of line 296
CalculateTimeFromZeroUncapped(p, t) ==
    IF p.pause_time # None THEN p.pause_time - p.start_time
    ELSE IF p.start_time = None \/ t <= p.start_time THEN 0
    ELSE t - p.start_time

\* lines 283-296, for a call that does not raise
CalculateTimeFromZero(p, t) ==
    IF p.pause_time # None THEN p.pause_time - p.start_time
    ELSE IF p.start_time = None \/ t <= p.start_time THEN 0
    ELSE IF p.duration = None THEN t - p.start_time
    ELSE Min(t - p.start_time, p.duration)

\* math.cos and math.sin of an angle in degrees, lines 722 and 724
Cos(a) == CASE a = 0 -> 1 [] a = 90 -> 0 [] a = 180 -> -1 [] a = 270 -> 0

Sin(a) == CASE a = 0 -> 0 [] a = 90 -> 1 [] a = 180 -> 0 [] a = 270 -> -1

\* lines 716-717: the angle and the radius of the orbit at working time tz
OrbitValues(p, tz) ==
    << (p.vector_start[1] + p.vector[1] * tz) % 360,
       p.vector_start[2] + p.vector[2] * tz >>

\* lines 714-728 and 759-760
CustomCalculatePosition(cl, p, tz) ==
    IF cl = "StaticFlightPlan" THEN p.start_position
    ELSE LET angle == OrbitValues(p, tz)[1]
             radius == OrbitValues(p, tz)[2]
         IN  << p.center[1] + Cos(angle) * radius,
                p.center[2] + Sin(angle) * radius >>

\* line 326: FlightPlan itself has no trajectory
CustomCalculatePositionRaises(cl) == cl = "FlightPlan"

\* lines 364-366 and 730: only OrbitFlightPlan overrides start_reverse_flight
DefinesReverseFlight(cl) == cl = "OrbitFlightPlan"

\* a start_reverse_flight that returns where it is not defined
ReverseFlightErrorSilent(cl) == "none"

\* lines 364-366: what start_reverse_flight raises
ReverseFlightError(cl) ==
    IF DefinesReverseFlight(cl) THEN "none" ELSE "NotImplementedError"

\* line 733 with a copy that shares its lists with self.fprops: the
\* assignments of line 736 would then write the declared vector_start
FpropsAfterReverseSharing(fp, tz) ==
    [fp EXCEPT !.vector_start = << fp.vector_start[1] + fp.vector[1] * tz,
                                   fp.vector_start[2] + fp.vector[2] * tz >>]

\* lines 733-738: self.fprops when start_reverse_flight has run; line 733 works
\* on a deepcopy, and the lists line 736 writes are the copy's
FpropsAfterReverse(fp, tz) == fp

\* lines 733-743: the working properties of a reverse flight
ReverseProps(fp, tz, start_time, current_time) ==
    [fp EXCEPT !.vector_start = << fp.vector_start[1] + fp.vector[1] * tz,
                                   fp.vector_start[2] + fp.vector[2] * tz >>,
               !.vector = << 0 - fp.vector[1], 0 - fp.vector[2] >>,
               !.start_time = IF start_time = NoStartGiven THEN current_time
                              ELSE start_time]

\* lines 352-355: the exception resume() raises, if any
ResumeRaises(p) ==
    CASE p.pause_time = Absent -> "KeyError"
      [] p.pause_time = None -> "TypeError"
      [] p.start_time = Absent -> "KeyError"
      [] p.start_time = None -> "TypeError"
      [] p.end_time = Absent -> "KeyError"
      [] OTHER -> "none"

\* lines 352-355: self.props when resume() returns or raises; line 353 has
\* acted when line 354 raises
ResumedProps(p, current_time) ==
    LET delta_time == current_time - p.pause_time
    IN  CASE p.pause_time \in {Absent, None} -> p
          [] p.start_time \in {Absent, None} -> p
          [] p.end_time = Absent ->
                 [p EXCEPT !.start_time = p.start_time + delta_time]
          [] OTHER ->
                 [p EXCEPT !.start_time = p.start_time + delta_time,
                           !.end_time = p.end_time + delta_time,
                           !.pause_time = None]

\* the start_time arguments of a call at current_time
StartArgs(current_time) ==
    {NoStartGiven, None} \cup {current_time + a : a \in 1..MaxAhead}

\* no pause() is being followed
NoPause == [props |-> EmptyProps, clock |-> FirstClock, then |-> "none"]

\* ---------------------------------------------------------------- Init
FlightInit ==
    /\ clock = FirstClock
    /\ \E c \in Constructions :
          /\ class = c.class
          /\ fprops = ConstructedFprops(c)
          /\ props = ConstructedProps(c, FirstClock)
          /\ pre_props = ConstructedProps(c, FirstClock)
          /\ pause_snap = NoPause
          /\ flight = IF c.class = "FlightPlan" THEN "none" ELSE "forward"
    /\ fop = "init"
    /\ farg = None
    /\ fraised = "none"
    /\ eval_tz = None
    /\ eval_pos = << >>

\* ------------------------------------------------------------- the methods
\* time passes
Tick ==
    /\ clock < MaxClock
    /\ clock' = clock + 1
    /\ fop' = "tick"
    /\ farg' = None
    /\ fraised' = "none"
    /\ eval_tz' = None
    /\ eval_pos' = << >>
    /\ pre_props' = props
    /\ UNCHANGED <<class, fprops, props, flight, pause_snap, nonFlightVars>>

\* lines 357-362
StartForwardFlight ==
    \E start_time \in StartArgs(clock) :
        /\ props' = ForwardProps(fprops, start_time, clock)
        /\ pre_props' = props
        /\ flight' = "forward"
        /\ pause_snap' = NoPause
        /\ fop' = "start_forward_flight"
        /\ farg' = start_time
        /\ fraised' = "none"
        /\ eval_tz' = None
        /\ eval_pos' = << >>
        /\ UNCHANGED <<clock, class, fprops, nonFlightVars>>

\* lines 348-349
Pause ==
    /\ props' = [props EXCEPT !.pause_time = clock]
    /\ pre_props' = props
    /\ pause_snap' = [props |-> props, clock |-> clock, then |-> "paused"]
    /\ fop' = "pause"
    /\ farg' = None
    /\ fraised' = "none"
    /\ eval_tz' = None
    /\ eval_pos' = << >>
    /\ UNCHANGED <<clock, class, fprops, flight, nonFlightVars>>

\* lines 351-355; the start time stays within the instants of the model
Resume ==
    /\ ResumedProps(props, clock).start_time \in Times \cup {Absent, None}
    /\ props' = ResumedProps(props, clock)
    /\ pre_props' = props
    /\ pause_snap' = IF pause_snap.then = "paused"
                     THEN [pause_snap EXCEPT !.then = "resumed"]
                     ELSE NoPause
    /\ fop' = "resume"
    /\ farg' = None
    /\ fraised' = ResumeRaises(props)
    /\ eval_tz' = None
    /\ eval_pos' = << >>
    /\ UNCHANGED <<clock, class, fprops, flight, nonFlightVars>>

\* lines 364-366: the classes without a reverse flight
StartReverseFlightUndefined ==
    /\ ~DefinesReverseFlight(class)
    /\ \E start_time \in StartArgs(clock) : farg' = start_time
    /\ pre_props' = props
    /\ pause_snap' = NoPause
    /\ fop' = "start_reverse_flight"
    /\ fraised' = ReverseFlightError(class)
    /\ eval_tz' = None
    /\ eval_pos' = << >>
    /\ UNCHANGED <<clock, class, fprops, props, flight, nonFlightVars>>

\* lines 730-743, when line 732 raises
StartReverseFlightRaises ==
    /\ DefinesReverseFlight(class)
    /\ CalculateTimeFromZeroRaises(props, clock)
    /\ \E start_time \in StartArgs(clock) : farg' = start_time
    /\ pre_props' = props
    /\ pause_snap' = NoPause
    /\ fop' = "start_reverse_flight"
    /\ fraised' = "Exception"
    /\ eval_tz' = None
    /\ eval_pos' = << >>
    /\ UNCHANGED <<clock, class, fprops, props, flight, nonFlightVars>>

\* lines 730-743
StartReverseFlight ==
    /\ DefinesReverseFlight(class)
    /\ ~CalculateTimeFromZeroRaises(props, clock)
    /\ \E start_time \in StartArgs(clock) :
          /\ props' = ReverseProps(fprops, CalculateTimeFromZero(props, clock),
                                   start_time, clock)
          /\ farg' = start_time
    /\ fprops' = FpropsAfterReverse(fprops, CalculateTimeFromZero(props, clock))
    /\ pre_props' = props
    /\ flight' = "reverse"
    /\ pause_snap' = NoPause
    /\ fop' = "start_reverse_flight"
    /\ fraised' = "none"
    /\ eval_tz' = None
    /\ eval_pos' = << >>
    /\ UNCHANGED <<clock, class, nonFlightVars>>

\* lines 306-307 and 315: calculate_position for an object without a parent,
\* when line 306 raises
EvaluateTimeRaises ==
    \E t \in Times :
        /\ CalculateTimeFromZeroRaises(props, t)
        /\ fop' = "calculate_position"
        /\ farg' = t
        /\ fraised' = "Exception"
        /\ eval_tz' = None
        /\ eval_pos' = << >>
        /\ pre_props' = props
        /\ UNCHANGED <<clock, class, fprops, props, flight, pause_snap, nonFlightVars>>

\* lines 306-307 and 315, when line 307 raises
EvaluatePositionRaises ==
    \E t \in Times :
        /\ ~CalculateTimeFromZeroRaises(props, t)
        /\ CustomCalculatePositionRaises(class)
        /\ fop' = "calculate_position"
        /\ farg' = t
        /\ fraised' = "NotImplementedError"
        /\ eval_tz' = CalculateTimeFromZero(props, t)
        /\ eval_pos' = << >>
        /\ pre_props' = props
        /\ UNCHANGED <<clock, class, fprops, props, flight, pause_snap, nonFlightVars>>

\* lines 306-307 and 315
Evaluate ==
    \E t \in Times :
        /\ ~CalculateTimeFromZeroRaises(props, t)
        /\ ~CustomCalculatePositionRaises(class)
        /\ fop' = "calculate_position"
        /\ farg' = t
        /\ fraised' = "none"
        /\ eval_tz' = CalculateTimeFromZero(props, t)
        /\ eval_pos' = CustomCalculatePosition(class, props,
                                               CalculateTimeFromZero(props, t))
        /\ pre_props' = props
        /\ UNCHANGED <<clock, class, fprops, props, flight, pause_snap, nonFlightVars>>

FlightNext ==
    \/ Tick
    \/ StartForwardFlight
    \/ Pause
    \/ Resume
    \/ StartReverseFlightUndefined
    \/ StartReverseFlightRaises
    \/ StartReverseFlight
    \/ Evaluate
    \/ EvaluateTimeRaises
    \/ EvaluatePositionRaises

\* ========================================================== Part III, claims
\* a key that holds a number
IsSet(x) == x \notin {Absent, None}

\* calculate_position of an object without a parent, when nothing raises
PositionAt(cl, p, t) == CustomCalculatePosition(cl, p, CalculateTimeFromZero(p, t))

\* resume() has just been called, directly after a pause() (time alone passed
\* in between) of a plan that had a start time and was not paused
ResumedAfterPause ==
    /\ fop = "resume"
    /\ pause_snap.then = "resumed"
    /\ IsSet(pause_snap.props.start_time)
    /\ pause_snap.props.pause_time = None

\* the time the pause lasted
PausedFor == clock - pause_snap.clock

\* C11: for a started flight plan, pause() at p followed by resume() at p + D
\* completes without error, clears pause_time and shifts start_time forward by
\* exactly D; the position at the instant resume completes is the position just
\* before the pause, and at every later t it is the position the never-paused
\* plan has at t - D.
C11_PauseResumeShiftsTimeline ==
    ResumedAfterPause =>
        /\ fraised = "none"
        /\ props.pause_time = None
        /\ props.start_time = pause_snap.props.start_time + PausedFor
        /\ ~CustomCalculatePositionRaises(class) =>
              /\ PositionAt(class, props, clock)
                   = PositionAt(class, pause_snap.props, pause_snap.clock)
              /\ \A t \in Times :
                    t >= clock =>
                        PositionAt(class, props, t)
                          = PositionAt(class, pause_snap.props, t - PausedFor)

\* the last call evaluated a forward flight that is not paused
EvaluatedForward ==
    /\ fop = "calculate_position"
    /\ flight = "forward"
    /\ props.pause_time = None

\* C12: for a forward flight with start time s and duration d that is not
\* paused, the working time is 0 for t <= s (the position is the starting
\* position), t - s for s < t < s + d, and exactly d for t >= s + d (the
\* position is the position at d); with no start time set it is 0.
C12_ForwardWorkingTime ==
    EvaluatedForward =>
        /\ fraised # "Exception"
        /\ props.start_time = None => eval_tz = 0
        /\ (IsSet(props.start_time) /\ IsSet(props.duration)) =>
              LET s == props.start_time
                  d == props.duration
                  t == farg
              IN  /\ t <= s => eval_tz = 0
                  /\ (s < t /\ t < s + d) => eval_tz = t - s
                  /\ t >= s + d => eval_tz = d
                  /\ fraised = "none" =>
                        /\ t <= s =>
                              eval_pos = CustomCalculatePosition(class, fprops, 0)
                        /\ t >= s + d =>
                              eval_pos = CustomCalculatePosition(class, props, d)

\* an orbit that moves is evaluated after the end of its flight
C12_Witness ==
    /\ EvaluatedForward
    /\ class = "OrbitFlightPlan"
    /\ props.vector = <<90, 1>>
    /\ IsSet(props.start_time)
    /\ IsSet(props.duration)
    /\ farg > props.start_time + props.duration
    /\ eval_tz = props.duration
    /\ eval_pos # CustomCalculatePosition(class, fprops, 0)

\* C13: for every evaluation time, in every state of the plan, the working
\* time is >= 0 and, when a duration is set, <= duration, also while the plan
\* is paused, and the evaluation never raises.
C13_WorkingTimeWithinFlight ==
    fop = "calculate_position" =>
        /\ fraised # "Exception"
        /\ eval_tz >= 0
        /\ IsSet(props.duration) => eval_tz <= props.duration

\* start_reverse_flight() with the default start time has just been called on
\* an OrbitFlightPlan that had a start time
ReversedInFlight ==
    /\ fop = "start_reverse_flight"
    /\ class = "OrbitFlightPlan"
    /\ farg = NoStartGiven
    /\ IsSet(pre_props.start_time)

\* C15: start_reverse_flight() of an OrbitFlightPlan in flight, at time r with
\* the default start time, leaves the angle and the radius at r as they were
\* just before the call and negates every rate in effect just before the call,
\* for every reversal, that of a reversed flight included.
C15_ReverseInPlace ==
    ReversedInFlight =>
        /\ fraised = "none"
        /\ OrbitValues(props, CalculateTimeFromZero(props, clock))
             = OrbitValues(pre_props, CalculateTimeFromZero(pre_props, clock))
        /\ props.vector = << 0 - pre_props.vector[1], 0 - pre_props.vector[2] >>

\* start_reverse_flight() has just been called on a plan of a class that does
\* not define it
ReversedUndefined ==
    /\ fop = "start_reverse_flight"
    /\ class \in {"FlightPlan", "StaticFlightPlan"}

\* C16: start_reverse_flight on FlightPlan or StaticFlightPlan raises instead
\* of returning, and leaves the working properties unchanged.
C16_UndefinedReverseRaises ==
    ReversedUndefined =>
        /\ fraised = "NotImplementedError"
        /\ props = pre_props

\* a paused StaticFlightPlan is asked to reverse
C16_Witness ==
    /\ ReversedUndefined
    /\ class = "StaticFlightPlan"
    /\ IsSet(props.start_time)
    /\ IsSet(props.pause_time)
    /\ fraised = "NotImplementedError"

\* the working properties a forward flight begins with: the declared ones
\* with the start time of the call
Declared(start_time, current_time) ==
    [fprops EXCEPT !.start_time = IF start_time = NoStartGiven THEN current_time
                                  ELSE start_time]

\* C34: no call changes the declared parameters; start_forward_flight leaves
\* as working properties the declared ones with its start time (the clock's
\* when none is given) and no pause; and a position evaluated right after it
\* is the position of the declared trajectory, whatever was called before
C34_ForwardFlightFromDeclared ==
    [][/\ fprops' = fprops
       /\ fop' = "start_forward_flight" =>
             /\ props' = Declared(farg', clock')
             /\ props'.pause_time = None
             /\ props'.start_time = IF farg' = NoStartGiven THEN clock' ELSE farg'
       /\ (fop = "start_forward_flight" /\ fop' = "calculate_position"
              /\ fraised' = "none") =>
             eval_pos' = CustomCalculatePosition(
                             class, Declared(farg, clock),
                             CalculateTimeFromZero(Declared(farg, clock), farg'))]_vars

\* C34: start_forward_flight is called on a plan that was reversed in flight
\* and then paused
C34_Witness ==
    /\ fop = "start_forward_flight"
    /\ pre_props.vector # fprops.vector
    /\ pre_props.vector_start # fprops.vector_start
    /\ pre_props.pause_time \notin {None, Absent}
    /\ props.pause_time = None
    /\ props.vector = fprops.vector
    /\ props.vector_start = fprops.vector_start

\* =================================================================== Part IV
\* Render objects of drawingPlugin.py: the tree add_child builds, the position
\* calculate_position composes along the parents, and the commands render
\* appends to a batch.  An object's children dict is the sequence of its
\* (name, object) entries in dict order.  A command of the batch is tagged with
\* the object whose rendering issued it.

\* ------------------------------------------------------------------ bounds
\* the number of add_child calls
MaxAdds == 2

\* ------------------------------------------------------------------ values
Nodes == {"n1", "n2", "n3", "n4"}

\* self.parent = None, line 388
NoParent == "None"

\* the instants of a render pass
FrameTimes == {FirstClock, FirstClock + 1}

\* the depth of recursion only a cycle reaches
RecursionLimit == Cardinality(Nodes)

\* which objects are constructed with visible=False
HiddenChoices == {{}, {"n2"}, {"n1", "n3"}}

\* the class of the fourth object
LastClasses == {"RenderObject", "CircleObject"}

\* StaticFlightPlan(start_position=sp), as lines 570, 613 and 678 construct it
StaticPlan(sp) ==
    ConstructedProps([class |-> "StaticFlightPlan", duration |-> None,
                      kwargs |-> [NoKwargs EXCEPT !.start_position = sp]],
                     FirstClock)

\* an OrbitFlightPlan on which start_forward_flight() was called
OrbitPlan ==
    ForwardProps(
        ConstructedFprops([class |-> "OrbitFlightPlan", duration |-> None,
                           kwargs |-> [NoKwargs EXCEPT !.center = <<10, 20>>,
                                                       !.vector_start = <<90, 5>>,
                                                       !.vector = <<90, 1>>]]),
        NoStartGiven, FirstClock)

\* lines 370-400 and the constructors of the subclasses: the objects of a
\* scene.  styles are the keys of self.props that are drawing properties, in
\* dict order; a property the class does not have is Absent.  The circle is
\* constructed with radiusX and radiusY equal to its radius, so that lines
\* 600-601 leave its props as they are
Constructed(hidden, last_class) ==
    [n \in Nodes |->
        CASE n = "n1" ->
                 [class |-> "RectObject", name |-> "root", visible |-> n \notin hidden,
                  scale |-> 2, styles |-> <<"strokeStyle", "fillStyle">>,
                  plan_class |-> "StaticFlightPlan", plan |-> StaticPlan(<<100, 200>>),
                  glow |-> FALSE, glow_width |-> 40, clickable |-> TRUE,
                  radiusX |-> Absent, radiusY |-> Absent, width |-> 200, height |-> 10]
          [] n = "n2" ->
                 [class |-> "CircleObject", name |-> "a", visible |-> n \notin hidden,
                  scale |-> 2, styles |-> <<"fillStyle", "strokeStyle">>,
                  plan_class |-> "OrbitFlightPlan", plan |-> OrbitPlan,
                  glow |-> TRUE, glow_width |-> 3, clickable |-> TRUE,
                  radiusX |-> 10, radiusY |-> 10, width |-> Absent, height |-> Absent]
          [] n = "n3" ->
                 [class |-> "TextObject", name |-> "b", visible |-> n \notin hidden,
                  scale |-> 3, styles |-> <<"lineWidth", "fillStyle", "strokeStyle">>,
                  plan_class |-> "StaticFlightPlan", plan |-> StaticPlan(<<3, 4>>),
                  glow |-> FALSE, glow_width |-> 40, clickable |-> TRUE,
                  radiusX |-> Absent, radiusY |-> Absent, width |-> Absent, height |-> Absent]
          [] n = "n4" ->
                 [class |-> last_class, name |-> "a", visible |-> n \notin hidden,
                  scale |-> 1, styles |-> <<"fillStyle", "strokeStyle">>,
                  plan_class |-> "StaticFlightPlan", plan |-> StaticPlan(<< >>),
                  glow |-> FALSE, glow_width |-> 40, clickable |-> TRUE,
                  radiusX |-> IF last_class = "CircleObject" THEN 10 ELSE Absent,
                  radiusY |-> IF last_class = "CircleObject" THEN 10 ELSE Absent,
                  width |-> Absent, height |-> Absent]]

\* the scales set_scale is called with
Scales == {1, 5}

\* the points of the hit tests
HitPoints == {<<2, 2>>, <<20, 20>>, <<25, 25>>, <<65, 65>>, <<90, 90>>}

\* the class of the fourth object of the hit tests
ShapeClasses == {"ImageObject", "TextObject", "RenderObject"}

\* the objects of the hit tests: RectObject(x=0, y=0, width=5, height=5),
\* CircleObject(x=20, y=20, radius=10, radiusX=10, radiusY=10),
\* RectObject(x=10, y=10, width=20, height=20) and an object of last_class
\* at (25, 25), 10 wide and high, with scale 2
Shapes(last_class) ==
    [n \in Nodes |->
        LET base == [visible |-> TRUE, clickable |-> TRUE, scale |-> 1,
                     styles |-> <<"fillStyle", "strokeStyle">>,
                     plan_class |-> "StaticFlightPlan", glow |-> FALSE, glow_width |-> 40,
                     radiusX |-> Absent, radiusY |-> Absent,
                     width |-> Absent, height |-> Absent]
        IN  CASE n = "n1" ->
                     [class |-> "RectObject", name |-> "root",
                      plan |-> StaticPlan(<<0, 0>>)] @@ [base EXCEPT !.width = 5, !.height = 5]
              [] n = "n2" ->
                     [class |-> "CircleObject", name |-> "a",
                      plan |-> StaticPlan(<<20, 20>>)]
                     @@ [base EXCEPT !.radiusX = 10, !.radiusY = 10]
              [] n = "n3" ->
                     [class |-> "RectObject", name |-> "b",
                      plan |-> StaticPlan(<<10, 10>>)]
                     @@ [base EXCEPT !.width = 20, !.height = 20]
              [] n = "n4" ->
                     [class |-> last_class, name |-> "c",
                      plan |-> StaticPlan(<<25, 25>>)]
                     @@ [base EXCEPT !.scale = 2, !.width = 10, !.height = 10]]

\* the batches a render call is handed: a new one, and one that holds a clear
Batches == { << >>, << [op |-> "clear", obj |-> NoParent, what |-> "", pos |-> << >>] >> }

\* ------------------------------------------------------------ the functions
\* an entry of a children dict
Child(name, c) == [name |-> name, obj |-> c]

\* the objects a children dict holds
ChildObjects(kids) == {kids[i].obj : i \in 1..Len(kids)}

HasName(kids, name) == \E i \in 1..Len(kids) : kids[i].name = name

\* a dict assignment that keeps the entry a name already has
PutKeepingFirst(kids, name, c) ==
    IF HasName(kids, name) THEN kids ELSE Append(kids, Child(name, c))

\* line 413: a dict assignment, which keeps the position of a key it holds
Put(kids, name, c) ==
    IF HasName(kids, name)
    THEN [i \in 1..Len(kids) |-> IF kids[i].name = name THEN Child(name, c) ELSE kids[i]]
    ELSE Append(kids, Child(name, c))

\* a command of the batch
Cmd(op, n, what, pos) == [op |-> op, obj |-> n, what |-> what, pos |-> pos]

\* lines 311 and 321
Scaled(positions, scale) == [i \in 1..Len(positions) |-> positions[i] * scale]

\* lines 306-307: the position of an object's own trajectory
LocalPosition(n, t) ==
    CustomCalculatePosition(objects[n].plan_class, objects[n].plan,
                            CalculateTimeFromZero(objects[n].plan, t))

\* lines 304-323: calculate_position, what it returns or raises; the
\* recursion along self.parent ends in RecursionError when the parents form a
\* cycle, and line 321 raises IndexError when the parent's position has more
\* components than the object's
RECURSIVE CalculatePosition(_, _, _)
CalculatePosition(n, t, depth) ==
    IF depth > RecursionLimit THEN [pos |-> << >>, err |-> "RecursionError"]
    ELSE IF parent[n] = NoParent THEN [pos |-> LocalPosition(n, t), err |-> "none"]
    ELSE LET positions == Scaled(LocalPosition(n, t), objects[n].scale)
             ppos == CalculatePosition(parent[n], t, depth + 1)
         IN  IF ppos.err # "none" THEN ppos
             ELSE IF Len(ppos.pos) > Len(positions)
                  THEN [pos |-> << >>, err |-> "IndexError"]
             ELSE [pos |-> [i \in 1..Len(ppos.pos) |-> positions[i] + ppos.pos[i]],
                   err |-> "none"]

\* the name of the drawing function a class draws itself with
DrawingFunc(cl) ==
    CASE cl = "CircleObject" -> "ellipse"
      [] cl = "RectObject" -> "roundRect"
      [] cl = "TextObject" -> "text"
      [] cl = "ImageObject" -> "image"
      [] cl = "RenderObject" -> "circle"

\* lines 19-24: the drawing functions of JSDraw
DRAWING_FUNCS == {"ellipse", "image", "line", "roundRect", "text"}

\* lines 118-158: a drawing function saves the context, issues the command and
\* restores the context
ProxyFunc(n, func, pos) ==
    << Cmd("save", n, func, << >>), Cmd("draw", n, func, pos),
       Cmd("restore", n, func, << >>) >>

\* customrender, lines 441-447, 575-580, 618-622 and 683-687: the commands it
\* appends, and what it raises.  RenderObject itself asks the batch for
\* 'circle', which is no drawing function: AttributeError, line 72
CustomRender(n, t) ==
    IF DrawingFunc(objects[n].class) \notin DRAWING_FUNCS
    THEN [out |-> << >>, err |-> "AttributeError"]
    ELSE LET p == CalculatePosition(n, t, 0)
         IN  IF p.err # "none" THEN [out |-> << >>, err |-> p.err]
             ELSE [out |-> ProxyFunc(n, DrawingFunc(objects[n].class),
                                     <<p.pos[1], p.pos[2]>>),
                   err |-> "none"]

\* lines 464-470: prerender
PreRender(n) ==
    << Cmd("save", n, "", << >>) >>
    \o [i \in 1..Len(objects[n].styles) |-> Cmd("set", n, objects[n].styles[i], << >>)]

\* lines 472-474: postrender
PostRender(n) == << Cmd("restore", n, "", << >>) >>

\* an object is rendered whatever its visible property
SkippedNever(n) == FALSE

\* lines 478-479
Skipped(n) == ~objects[n].visible

\* lines 476-492: the commands render appends until it returns or raises; the
\* recursion into the children ends in RecursionError when they form a cycle
RECURSIVE RenderOut(_, _, _), RenderChildren(_, _, _, _)
RenderOut(n, t, depth) ==
    IF depth > RecursionLimit THEN [out |-> << >>, err |-> "RecursionError"]
    ELSE IF Skipped(n) THEN [out |-> << >>, err |-> "none"]
    ELSE LET kids == RenderChildren(children[n], 1, t, depth)
             own == CustomRender(n, t)
         IN  IF kids.err # "none"
             THEN [out |-> PreRender(n) \o kids.out, err |-> kids.err]
             ELSE IF own.err # "none"
                  THEN [out |-> PreRender(n) \o kids.out, err |-> own.err]
             ELSE [out |-> PreRender(n) \o kids.out \o own.out \o PostRender(n),
                   err |-> "none"]

\* lines 485-486: the children from the i-th on, in dict order
RenderChildren(kids, i, t, depth) ==
    IF i > Len(kids) THEN [out |-> << >>, err |-> "none"]
    ELSE LET first == RenderOut(kids[i].obj, t, depth + 1)
             rest == RenderChildren(kids, i + 1, t, depth)
         IN  IF first.err # "none" THEN first
             ELSE [out |-> first.out \o rest.out, err |-> rest.err]

\* lines 585-587: the test of an ellipse centred at positions for the point
\* (x, y), dx * dx + dy * dy - 1 <= 0 with dx = (x - positions[0]) / rx and
\* dy = (y - positions[1]) / ry, multiplied out by rx * rx * ry * ry
InEllipse(x, y, positions, rx, ry) ==
    (x - positions[1]) * (x - positions[1]) * ry * ry
        + (y - positions[2]) * (y - positions[2]) * rx * rx
    <= rx * rx * ry * ry

\* lines 629 and 657: the bounds test, for a point from which the position
\* was subtracted
InBounds(x, y, w, h) == x >= 0 /\ x < w /\ y >= 0 /\ y < h

\* the classes whose point_in_obj is that of EllipseObject, lines 582-590
EllipseClasses == {"EllipseObject", "CircleObject"}

\* the classes whose point_in_obj is that of lines 624-632 and 652-660
RectClasses == {"RoundRectObject", "RectObject", "ImageObject"}

\* lines 629 and 657: the width and height point_in_obj tests against
TestedSize(n) ==
    <<objects[n].width * objects[n].scale, objects[n].height * objects[n].scale>>

\* lines 622 and 650: the width and height customrender draws; an image is
\* drawn with its width and height as they are
DrawnSize(n) ==
    IF objects[n].class = "ImageObject" THEN <<objects[n].width, objects[n].height>>
    ELSE <<objects[n].width * objects[n].scale, objects[n].height * objects[n].scale>>

\* the test of an object that is clickable only
OwnTestWhenClickable(n, x, y, positions) ==
    /\ objects[n].clickable
    /\ IF objects[n].class \in EllipseClasses
       THEN InEllipse(x, y, positions, objects[n].radiusX * objects[n].scale,
                      objects[n].radiusY * objects[n].scale)
       ELSE InBounds(x - positions[1], y - positions[2], TestedSize(n)[1], TestedSize(n)[2])

\* lines 585-587, 629 and 657: the test of the object's own geometry, which
\* reads the position, the radii or the width and height, and the scale
OwnTest(n, x, y, positions) ==
    IF objects[n].class \in EllipseClasses
    THEN InEllipse(x, y, positions, objects[n].radiusX * objects[n].scale,
                   objects[n].radiusY * objects[n].scale)
    ELSE InBounds(x - positions[1], y - positions[2], TestedSize(n)[1], TestedSize(n)[2])

\* a test of the geometry of n made for the point (x, y)
Test(n, x, y) == [obj |-> n, x |-> x, y |-> y]

\* what point_in_obj returns, an object or None, and the tests it made
Hit(n, tests) == [ret |-> n, tests |-> tests, err |-> "none"]

\* point_in_obj ends in an exception
HitRaises(err, tests) == [ret |-> NoParent, tests |-> tests, err |-> err]

\* lines 582-590, 624-632, 652-660 and 689-690: point_in_obj.  A match of
\* the object's own geometry returns the object, and its children are not
\* tested; lines 627-628 and 655-656 assign the translated point to x and y,
\* which line 632 (660) hands to the children.  RenderObject itself has no
\* point_in_obj: AttributeError.  The recursion into the children ends in
\* RecursionError when they form a cycle
RECURSIVE PointInObjOut(_, _, _, _, _), PointInObjChildren(_, _, _, _, _, _)
PointInObjOut(n, x, y, t, depth) ==
    IF depth > RecursionLimit THEN HitRaises("RecursionError", << >>)
    ELSE IF objects[n].class = "RenderObject" THEN HitRaises("AttributeError", << >>)
    ELSE IF objects[n].class = "TextObject"
         THEN PointInObjChildren(children[n], 1, x, y, t, depth)
    ELSE LET p == CalculatePosition(n, t, 0)
         IN  IF p.err # "none" THEN HitRaises(p.err, << >>)
             ELSE IF objects[n].class \in EllipseClasses
                  THEN IF OwnTest(n, x, y, p.pos)
                       THEN Hit(n, << Test(n, x, y) >>)
                       ELSE LET kids == PointInObjChildren(children[n], 1, x, y, t, depth)
                            IN  [kids EXCEPT !.tests = << Test(n, x, y) >> \o @]
             ELSE IF OwnTest(n, x, y, p.pos)
                  THEN Hit(n, << Test(n, x, y) >>)
                  ELSE LET kids == PointInObjChildren(children[n], 1, x - p.pos[1],
                                                      y - p.pos[2], t, depth)
                       IN  [kids EXCEPT !.tests = << Test(n, x, y) >> \o @]

\* lines 402-410: the first child, in dict order, whose point_in_obj returns
\* an object
PointInObjChildren(kids, i, x, y, t, depth) ==
    IF i > Len(kids) THEN Hit(NoParent, << >>)
    ELSE LET first == PointInObjOut(kids[i].obj, x, y, t, depth + 1)
         IN  IF first.err # "none" \/ first.ret # NoParent THEN first
             ELSE LET rest == PointInObjChildren(kids, i + 1, x, y, t, depth)
                  IN  [rest EXCEPT !.tests = first.tests \o @]

\* lines 494-497: set_scale, the objects whose scale it has set when it
\* returns or raises; the recursion into the children ends in RecursionError
\* when they form a cycle
RECURSIVE SetScaleOut(_, _), SetScaleChildren(_, _, _)
SetScaleOut(n, depth) ==
    IF depth > RecursionLimit THEN [set |-> {}, err |-> "RecursionError"]
    ELSE LET kids == SetScaleChildren(children[n], 1, depth)
         IN  [kids EXCEPT !.set = {n} \cup @]

\* lines 496-497: the children from the i-th on, in dict order
SetScaleChildren(kids, i, depth) ==
    IF i > Len(kids) THEN [set |-> {}, err |-> "none"]
    ELSE LET first == SetScaleOut(kids[i].obj, depth + 1)
         IN  IF first.err # "none" THEN first
             ELSE LET rest == SetScaleChildren(kids, i + 1, depth)
                  IN  [rest EXCEPT !.set = first.set \cup @]

\* type(v) of the value point_in_obj returns: an object of a class, or None
TypeOf(v) == IF v = NoParent THEN "NoneType" ELSE objects[v].class

\* what a call that is no render passes and returns
NoCall == [obj |-> NoParent, child |-> NoParent, t |-> None, scale |-> None]

\* no point_in_obj was called
NoHit == [x |-> 0, y |-> 0, ret |-> NoParent, type |-> "NoneType", tests |-> << >>]

\* ---------------------------------------------------------------- Init
\* nothing was called on the objects
NothingCalled ==
    /\ children = [n \in Nodes |-> << >>]
    /\ parent = [n \in Nodes |-> NoParent]
    /\ rop = "init"
    /\ rarg = NoCall
    /\ rraised = "none"
    /\ rret = << >>
    /\ hit = NoHit
    /\ f_before = << >>
    /\ f = << >>
    /\ pre_children = [n \in Nodes |-> << >>]
    /\ added = [n \in Nodes |-> << >>]
    /\ adds = 0
    /\ pre_scale = [n \in Nodes |-> objects[n].scale]

TreeInit ==
    /\ \E hidden \in HiddenChoices, last_class \in LastClasses :
          objects = Constructed(hidden, last_class)
    /\ NothingCalled

\* ------------------------------------------------------------- the methods
\* render, calculate_position and point_in_obj change no object: a call is
\* made on the objects as the add_child calls left them, and the calls that
\* could follow one of them are those made in its place.  A set_scale is the
\* last call of a run
TreeBuilt == rop \in {"init", "add_child"}

\* lines 412-414
AddChild ==
    \E p \in Nodes, c \in Nodes :
        /\ TreeBuilt
        /\ adds < MaxAdds
        /\ children' = [children EXCEPT ![p] = Put(children[p], objects[c].name, c)]
        /\ parent' = [parent EXCEPT ![c] = p]
        /\ pre_children' = children
        /\ added' = [added EXCEPT ![p] =
                        Append(SelectSeq(added[p],
                                         LAMBDA x : objects[x].name # objects[c].name),
                               c)]
        /\ adds' = adds + 1
        /\ rop' = "add_child"
        /\ rarg' = [obj |-> p, child |-> c, t |-> None, scale |-> None]
        /\ rraised' = "none"
        /\ rret' = << >>
        /\ f_before' = << >>
        /\ f' = << >>
        /\ UNCHANGED <<objects, hit, pre_scale, nonTreeVars>>

\* lines 476-492, a call that returns
Render ==
    \E n \in Nodes, t \in FrameTimes :
        LET r == RenderOut(n, t, 0)
        IN  /\ TreeBuilt
            /\ r.err = "none"
            /\ \E batch \in Batches :
                  /\ f_before' = batch
                  /\ f' = batch \o r.out
            /\ rop' = "render"
            /\ rarg' = [obj |-> n, child |-> NoParent, t |-> t, scale |-> None]
            /\ rraised' = "none"
            /\ rret' = << >>
            /\ pre_children' = children
            /\ UNCHANGED <<objects, children, parent, added, adds, hit, pre_scale, nonTreeVars>>

\* lines 476-492, a call that raises
RenderRaises ==
    \E n \in Nodes, t \in FrameTimes :
        LET r == RenderOut(n, t, 0)
        IN  /\ TreeBuilt
            /\ r.err # "none"
            /\ \E batch \in Batches :
                  /\ f_before' = batch
                  /\ f' = batch \o r.out
            /\ rop' = "render"
            /\ rarg' = [obj |-> n, child |-> NoParent, t |-> t, scale |-> None]
            /\ rraised' = r.err
            /\ rret' = << >>
            /\ pre_children' = children
            /\ UNCHANGED <<objects, children, parent, added, adds, hit, pre_scale, nonTreeVars>>

\* lines 304-323, a call that returns
Position ==
    \E n \in Nodes, t \in FrameTimes :
        LET p == CalculatePosition(n, t, 0)
        IN  /\ TreeBuilt
            /\ p.err = "none"
            /\ rop' = "calculate_position"
            /\ rarg' = [obj |-> n, child |-> NoParent, t |-> t, scale |-> None]
            /\ rraised' = "none"
            /\ rret' = p.pos
            /\ f_before' = << >>
            /\ f' = << >>
            /\ pre_children' = children
            /\ UNCHANGED <<objects, children, parent, added, adds, hit, pre_scale, nonTreeVars>>

\* lines 304-323, a call that raises
PositionRaises ==
    \E n \in Nodes, t \in FrameTimes :
        LET p == CalculatePosition(n, t, 0)
        IN  /\ TreeBuilt
            /\ p.err # "none"
            /\ rop' = "calculate_position"
            /\ rarg' = [obj |-> n, child |-> NoParent, t |-> t, scale |-> None]
            /\ rraised' = p.err
            /\ rret' = << >>
            /\ f_before' = << >>
            /\ f' = << >>
            /\ pre_children' = children
            /\ UNCHANGED <<objects, children, parent, added, adds, hit, pre_scale, nonTreeVars>>

\* lines 494-497, a call that returns
SetScale ==
    \E n \in Nodes, new_scale \in Scales :
        LET r == SetScaleOut(n, 0)
        IN  /\ TreeBuilt
            /\ r.err = "none"
            /\ objects' = [m \in Nodes |->
                               IF m \in r.set THEN [objects[m] EXCEPT !.scale = new_scale]
                               ELSE objects[m]]
            /\ pre_scale' = [m \in Nodes |-> objects[m].scale]
            /\ rop' = "set_scale"
            /\ rarg' = [obj |-> n, child |-> NoParent, t |-> None, scale |-> new_scale]
            /\ rraised' = "none"
            /\ rret' = << >>
            /\ f_before' = << >>
            /\ f' = << >>
            /\ pre_children' = children
            /\ UNCHANGED <<children, parent, added, adds, hit, nonTreeVars>>

\* lines 494-497, a call that raises: the scales set before it raised stay
SetScaleRaises ==
    \E n \in Nodes, new_scale \in Scales :
        LET r == SetScaleOut(n, 0)
        IN  /\ TreeBuilt
            /\ r.err # "none"
            /\ objects' = [m \in Nodes |->
                               IF m \in r.set THEN [objects[m] EXCEPT !.scale = new_scale]
                               ELSE objects[m]]
            /\ pre_scale' = [m \in Nodes |-> objects[m].scale]
            /\ rop' = "set_scale"
            /\ rarg' = [obj |-> n, child |-> NoParent, t |-> None, scale |-> new_scale]
            /\ rraised' = r.err
            /\ rret' = << >>
            /\ f_before' = << >>
            /\ f' = << >>
            /\ pre_children' = children
            /\ UNCHANGED <<children, parent, added, adds, hit, nonTreeVars>>

TreeNext ==
    \/ AddChild
    \/ Render
    \/ RenderRaises
    \/ Position
    \/ PositionRaises
    \/ SetScale
    \/ SetScaleRaises

\* ------------------------------------------------------------- hit testing
\* lines 582-590, 624-632, 652-660 and 689-690, a call that returns
PointInObj ==
    \E n \in Nodes, pt \in HitPoints :
        LET r == PointInObjOut(n, pt[1], pt[2], FirstClock, 0)
        IN  /\ TreeBuilt
            /\ r.err = "none"
            /\ hit' = [x |-> pt[1], y |-> pt[2], ret |-> r.ret, type |-> TypeOf(r.ret),
                       tests |-> r.tests]
            /\ rop' = "point_in_obj"
            /\ rarg' = [obj |-> n, child |-> NoParent, t |-> FirstClock, scale |-> None]
            /\ rraised' = "none"
            /\ rret' = << >>
            /\ f_before' = << >>
            /\ f' = << >>
            /\ pre_children' = children
            /\ UNCHANGED <<objects, children, parent, added, adds, pre_scale, nonTreeVars>>

\* lines 582-590, 624-632, 652-660 and 689-690, a call that raises
PointInObjRaises ==
    \E n \in Nodes, pt \in HitPoints :
        LET r == PointInObjOut(n, pt[1], pt[2], FirstClock, 0)
        IN  /\ TreeBuilt
            /\ r.err # "none"
            /\ hit' = [x |-> pt[1], y |-> pt[2], ret |-> r.ret, type |-> TypeOf(r.ret),
                       tests |-> r.tests]
            /\ rop' = "point_in_obj"
            /\ rarg' = [obj |-> n, child |-> NoParent, t |-> FirstClock, scale |-> None]
            /\ rraised' = r.err
            /\ rret' = << >>
            /\ f_before' = << >>
            /\ f' = << >>
            /\ pre_children' = children
            /\ UNCHANGED <<objects, children, parent, added, adds, pre_scale, nonTreeVars>>

\* the objects of the hit tests, as constructed
HitInit ==
    /\ \E last_class \in ShapeClasses : objects = Shapes(last_class)
    /\ NothingCalled

\* the properties of an object set to False
SetToFalse == {<<n, k>> \in Nodes \X {"visible", "clickable"} : ~objects[n][k]}

\* the properties the application assigns: clickable of the root object, as
\* clickable=False of layerController.py line 377 has it, and visible of two
\* objects
PropSettings == {<<"n1", "clickable">>, <<"n2", "visible">>, <<"n3", "visible">>}

\* the application assigns props['visible'] or props['clickable'] of an object
SetProp ==
    \E nk \in PropSettings, v \in BOOLEAN :
        /\ TreeBuilt
        /\ objects[nk[1]][nk[2]] # v
        /\ objects' = [objects EXCEPT ![nk[1]][nk[2]] = v]
        /\ UNCHANGED <<children, parent, rop, rarg, rraised, rret, hit, f_before, f,
                       pre_children, added, adds, pre_scale, nonTreeVars>>

HitNext ==
    \/ AddChild
    \/ PointInObj
    \/ PointInObjRaises

\* ------------------------------------------------ hit tests of a built scene
\* the add_child calls that build a scene, as <<parent, child>>: none, and
\* those of a root with two children, one of which has a child
Scenes == { << >>, << <<"n1", "n2">>, <<"n1", "n3">>, <<"n3", "n4">> >> }

\* lines 412-414, one call after the other: the children dicts, the parents
\* and the order of the children after the calls
RECURSIVE ChildrenAfter(_), ParentAfter(_), AddedAfter(_)
ChildrenAfter(adds_made) ==
    IF adds_made = << >> THEN [n \in Nodes |-> << >>]
    ELSE LET call == adds_made[Len(adds_made)]
         IN  [ChildrenAfter(SubSeq(adds_made, 1, Len(adds_made) - 1)) EXCEPT
                  ![call[1]] = Put(@, objects[call[2]].name, call[2])]

ParentAfter(adds_made) ==
    IF adds_made = << >> THEN [n \in Nodes |-> NoParent]
    ELSE LET call == adds_made[Len(adds_made)]
         IN  [ParentAfter(SubSeq(adds_made, 1, Len(adds_made) - 1)) EXCEPT ![call[2]] = call[1]]

AddedAfter(adds_made) ==
    IF adds_made = << >> THEN [n \in Nodes |-> << >>]
    ELSE LET call == adds_made[Len(adds_made)]
         IN  [AddedAfter(SubSeq(adds_made, 1, Len(adds_made) - 1)) EXCEPT
                  ![call[1]] = Append(@, call[2])]

\* the objects of the hit tests, constructed and added to each other
PropsInit ==
    /\ \E last_class \in ShapeClasses : objects = Shapes(last_class)
    /\ \E adds_made \in Scenes :
          /\ children = ChildrenAfter(adds_made)
          /\ parent = ParentAfter(adds_made)
          /\ added = AddedAfter(adds_made)
          /\ adds = Len(adds_made)
    /\ rop = "init"
    /\ rarg = NoCall
    /\ rraised = "none"
    /\ rret = << >>
    /\ hit = NoHit
    /\ f_before = << >>
    /\ f = << >>
    /\ pre_children = children
    /\ pre_scale = [n \in Nodes |-> objects[n].scale]

PropsNext ==
    \/ SetProp
    \/ PointInObj
    \/ PointInObjRaises

\* =========================================================== Part IV, claims
\* the object a children dict holds under a name
Lookup(kids, name) == kids[CHOOSE i \in 1..Len(kids) : kids[i].name = name].obj

ObjectNames == {objects[n].name : n \in Nodes}

\* the objects held in the child collection of n
ChildrenOf(n) == ChildObjects(children[n])

\* the objects reached from those of S through at most k child collections
RECURSIVE ReachableFrom(_, _)
ReachableFrom(S, k) ==
    IF k = 0 THEN S
    ELSE ReachableFrom(S \cup UNION {ChildrenOf(x) : x \in S}, k - 1)

Descendants(n) == ReachableFrom(ChildrenOf(n), Cardinality(Nodes))

\* C14: for every node with a parent and every t, calculate_position returns,
\* component by component, the node's local position times its scale plus the
\* parent's calculate_position at t; at depth 2 that is the scaled local
\* positions of the node and of its parent plus the unscaled one of the root.
C14_PositionComposes ==
    (rop = "calculate_position" /\ parent[rarg.obj] # NoParent) =>
        LET n == rarg.obj
            p == parent[n]
            own == LocalPosition(n, rarg.t)
            up == CalculatePosition(p, rarg.t, 0).pos
        IN  /\ rraised = "none"
            /\ Len(rret) = Len(up)
            /\ \A i \in 1..Len(rret) : rret[i] = own[i] * objects[n].scale + up[i]
            /\ (parent[p] # NoParent /\ parent[parent[p]] = NoParent) =>
                  \A i \in 1..Len(rret) :
                      rret[i] = own[i] * objects[n].scale
                                + LocalPosition(p, rarg.t)[i] * objects[p].scale
                                + LocalPosition(parent[p], rarg.t)[i]

\* C17: after p.add_child(c), p.children maps c's name to c and c.parent is p;
\* a child p had under that name is replaced, p has exactly one child under
\* it, no error is raised, and the other children of p are unchanged.
C17_AddChildInsertsOrReplaces ==
    rop = "add_child" =>
        LET p == rarg.obj
            c == rarg.child
            name == objects[c].name
        IN  /\ rraised = "none"
            /\ HasName(children[p], name)
            /\ Lookup(children[p], name) = c
            /\ Cardinality({i \in 1..Len(children[p]) : children[p][i].name = name}) = 1
            /\ parent[c] = p
            /\ \A other \in ObjectNames \ {name} :
                  /\ HasName(children[p], other) <=> HasName(pre_children[p], other)
                  /\ HasName(children[p], other) =>
                        Lookup(children[p], other) = Lookup(pre_children[p], other)

\* a child is added under the name of another child of the same parent
C17_Witness ==
    /\ rop = "add_child"
    /\ HasName(pre_children[rarg.obj], objects[rarg.child].name)
    /\ Lookup(pre_children[rarg.obj], objects[rarg.child].name) # rarg.child
    /\ Lookup(children[rarg.obj], objects[rarg.child].name) = rarg.child
    /\ Len(children[rarg.obj]) = 1

\* C18: after any sequence of add_child calls the parent/child relation is a
\* tree: no node is reached from itself through children, and no node is in
\* the child collection of more than one parent.
C18_ParentChildIsTree ==
    /\ \A n \in Nodes : n \notin Descendants(n)
    /\ \A c \in Nodes : Cardinality({p \in Nodes : c \in ChildrenOf(p)}) <= 1

\* C37: after any sequence of add_child calls the parent back-references agree
\* with the child collections: for every node n with n.parent = p,
\* p.children[n's name] is n, and every entry c of p.children has c.parent = p.
C37_BackReferencesAgree ==
    /\ \A n \in Nodes :
          parent[n] # NoParent =>
              /\ HasName(children[parent[n]], objects[n].name)
              /\ Lookup(children[parent[n]], objects[n].name) = n
    /\ \A p \in Nodes : \A c \in ChildrenOf(p) : parent[c] = p

\* C19: render on a node whose visible property is false appends nothing to
\* the batch and renders none of its descendants: the batch is as it was.
C19_HiddenRendersNothing ==
    (rop = "render" /\ ~objects[rarg.obj].visible) =>
        /\ rraised = "none"
        /\ f = f_before

\* a hidden node with a visible child is rendered into a batch that holds a
\* command
C19_Witness ==
    /\ rop = "render"
    /\ ~objects[rarg.obj].visible
    /\ \E c \in ChildrenOf(rarg.obj) : objects[c].visible
    /\ f_before # << >>
    /\ f = f_before

\* the complete output of the objects of a sequence, one after the other
RECURSIVE OutputOfEach(_, _)
OutputOfEach(seq, t) ==
    IF seq = << >> THEN << >>
    ELSE RenderOut(Head(seq), t, 1).out \o OutputOfEach(Tail(seq), t)

\* C20: render on a visible node emits a state save and the node's style
\* assignments, then the complete output of each child, a child added later
\* being emitted later, then the node's own shape operation, then a state
\* restore.
C20_RenderOrder ==
    (rop = "render" /\ objects[rarg.obj].visible) =>
        /\ rraised = "none"
        /\ f = f_before \o PreRender(rarg.obj)
                 \o OutputOfEach(added[rarg.obj], rarg.t)
                 \o CustomRender(rarg.obj, rarg.t).out
                 \o PostRender(rarg.obj)

\* the commands the last render appended to the batch
Appended == SubSeq(f, Len(f_before) + 1, Len(f))

\* the state saves less the state restores among the first i commands
OpenSaves(cmds, i) ==
    Cardinality({m \in 1..i : cmds[m].op = "save"})
        - Cardinality({m \in 1..i : cmds[m].op = "restore"})

\* the save at j and the restore at k are those of one prerender and its
\* postrender of object n
MatchingPair(cmds, n, j, k) ==
    /\ cmds[j] = Cmd("save", n, "", << >>)
    /\ cmds[k] = Cmd("restore", n, "", << >>)
    /\ OpenSaves(cmds, k) = OpenSaves(cmds, j) - 1
    /\ \A m \in j..(k - 1) : OpenSaves(cmds, m) >= OpenSaves(cmds, j)

\* C39: in the command list rendering a tree into an empty batch produces,
\* state saves and state restores are balanced: every prefix has at least as
\* many saves as restores, the whole list has equally many, and the shape
\* operation of a node lies between the node's save and its matching restore.
C39_SavesRestoresBalanced ==
    (rop = "render" /\ f_before = << >> /\ C18_ParentChildIsTree) =>
        /\ \A i \in 1..Len(f) : OpenSaves(f, i) >= 0
        /\ OpenSaves(f, Len(f)) = 0
        /\ \A i \in 1..Len(f) :
              f[i].op = "draw" =>
                  \E j \in 1..(i - 1), k \in (i + 1)..Len(f) :
                      MatchingPair(f, f[i].obj, j, k)

\* C21: when a visible node has glow enabled, render emits, before the node's
\* shape operation, one stroke operation per line width 1, 2, ..., glow_width
\* in the glow colour; with glow disabled only the shape operation is emitted.
\* Stated for a node without children: the operations render emits for it
\* are glow_width strokes and the shape, or the shape alone.
C21_GlowStrokesBeforeShape ==
    (rop = "render" /\ rraised = "none" /\ objects[rarg.obj].visible
        /\ children[rarg.obj] = << >>) =>
        Len(SelectSeq(Appended, LAMBDA c : c.op = "draw"))
            = IF objects[rarg.obj].glow THEN objects[rarg.obj].glow_width + 1 ELSE 1

\* the geometry render draws for n at t holds the point (x, y)
Matches(n, x, y, t) ==
    LET p == CalculatePosition(n, t, 0)
    IN  /\ p.err = "none"
        /\ \/ /\ objects[n].class \in EllipseClasses
              /\ InEllipse(x, y, p.pos, objects[n].radiusX * objects[n].scale,
                           objects[n].radiusY * objects[n].scale)
           \/ /\ objects[n].class \in RectClasses
              /\ InBounds(x - p.pos[1], y - p.pos[2], DrawnSize(n)[1], DrawnSize(n)[2])

\* the hit-test path from n down: n when its geometry matches, then the path
\* from the topmost (last added) child that has one
RECURSIVE HitPath(_, _, _, _, _), HitPathAmong(_, _, _, _, _, _)
HitPath(n, x, y, t, k) ==
    IF k = 0 THEN << >>
    ELSE LET below == HitPathAmong(added[n], Len(added[n]), x, y, t, k - 1)
         IN  IF Matches(n, x, y, t) THEN <<n>> \o below ELSE below

HitPathAmong(kids, i, x, y, t, k) ==
    IF i = 0 THEN << >>
    ELSE LET path == HitPath(kids[i], x, y, t, k)
         IN  IF path # << >> THEN path ELSE HitPathAmong(kids, i - 1, x, y, t, k)

\* C22: point_in_obj(x, y, t) returns the hit-test path as an ordered
\* collection, from the outermost matched ancestor to the innermost matched
\* descendant, the empty collection when nothing matches.  Stated for a tree
\* of objects: the call returns, what it returns is a collection, and an
\* object it returns stands for the whole path (None for the empty one).
C22_ReturnsHitPath ==
    (rop = "point_in_obj" /\ C18_ParentChildIsTree) =>
        /\ rraised = "none"
        /\ hit.type = "list"
        /\ (IF hit.ret = NoParent THEN << >> ELSE <<hit.ret>>)
              = HitPath(rarg.obj, hit.x, hit.y, rarg.t, Cardinality(Nodes))

\* C24: the bounds test of a rectangle, rounded rectangle or image at any
\* depth is applied to the point passed to the root minus the node's computed
\* position, against the width and height render draws for the node.
C24_BoundsTestInWorld ==
    rop = "point_in_obj" =>
        \A i \in 1..Len(hit.tests) :
            objects[hit.tests[i].obj].class \in RectClasses =>
                /\ hit.tests[i].x = hit.x
                /\ hit.tests[i].y = hit.y
                /\ TestedSize(hit.tests[i].obj) = DrawnSize(hit.tests[i].obj)

\* the position of c in the order the children of p were added
AddedAt(p, c) == CHOOSE i \in 1..Len(added[p]) : added[p][i] = c

\* C25: when the point lies inside the geometry of two or more siblings, the
\* sibling point_in_obj reports is the topmost one, the one added last.
\* Stated for the children of the object the call is made on: no sibling
\* added after the reported child holds the point.
C25_TopmostSibling ==
    (rop = "point_in_obj" /\ rraised = "none" /\ hit.ret \in ChildrenOf(rarg.obj)) =>
        \A i \in 1..Len(added[rarg.obj]) :
            i > AddedAt(rarg.obj, hit.ret) =>
                ~Matches(added[rarg.obj][i], hit.x, hit.y, rarg.t)

\* C26: after n.set_scale(f), n and every descendant of n have scale f, and
\* no node outside the subtree of n has its scale changed.
C26_SetScaleCoversSubtree ==
    rop = "set_scale" =>
        \A m \in Nodes :
            IF m \in {rarg.obj} \cup Descendants(rarg.obj)
            THEN objects[m].scale = rarg.scale
            ELSE objects[m].scale = pre_scale[m]

\* the geometry point_in_obj tests for n holds the point (x, y)
InOwnGeometry(n, x, y) ==
    LET p == CalculatePosition(n, FirstClock, 0)
    IN  /\ p.err = "none"
        /\ \/ /\ objects[n].class \in EllipseClasses
              /\ InEllipse(x, y, p.pos, objects[n].radiusX * objects[n].scale,
                           objects[n].radiusY * objects[n].scale)
           \/ /\ objects[n].class \in RectClasses
              /\ InBounds(x - p.pos[1], y - p.pos[2], TestedSize(n)[1], TestedSize(n)[2])

\* what point_in_obj returns or raises for every object and every point
HitResults ==
    [n \in Nodes, pt \in HitPoints |->
        LET r == PointInObjOut(n, pt[1], pt[2], FirstClock, 0) IN <<r.ret, r.err>>]

\* the last call was a point_in_obj on an object whose geometry holds the point
OwnGeometryTested ==
    /\ rop = "point_in_obj"
    /\ InOwnGeometry(rarg.obj, hit.x, hit.y)

\* C38: the result of point_in_obj does not depend on the visible and
\* clickable properties: an object whose own geometry holds the point is
\* returned also when its visible or clickable property is False, and setting
\* one of these properties leaves the result of every hit test as it was.
C38_HitIgnoresVisibleClickable ==
    [][/\ OwnGeometryTested' => (rraised' = "none" /\ hit'.ret = rarg'.obj)
       /\ SetToFalse' # SetToFalse => HitResults' = HitResults]_vars

\* an object that render skips is hit
C38_Witness ==
    /\ rop = "point_in_obj"
    /\ ~objects[rarg.obj].visible
    /\ InOwnGeometry(rarg.obj, hit.x, hit.y)
    /\ hit.ret = rarg.obj

\* ==================================================================== Part V
\* One CircleObject without a parent, constructed as
\* CircleObject(x=100, y=100, radius=r): scale is 1, and its StaticFlightPlan
\* keeps it at (100, 100).  point_in_obj reads radiusX and radiusY, which the
\* constructor of EllipseObject sets and customrender of CircleObject copies
\* from radius.

\* the radius a circle is constructed with, or given later
Radii == {10, 20, 30}

\* the x and y arguments of the constructor
CircleCentre == <<100, 100>>

\* the points of the hit tests
CirclePoints == {<<105, 100>>, <<115, 100>>, <<100, 108>>, <<93, 93>>, <<125, 100>>,
                 <<100, 145>>, <<100, 160>>, <<210, 100>>}

\* lines 596 and 562-563: the props of CircleObject(x, y, radius=r)
CircleConstructed(r) == [radius |-> r, radiusX |-> 100, radiusY |-> 50]

\* lines 600-601: customrender of CircleObject
CustomRendered(p) == [p EXCEPT !.radiusX = p.radius, !.radiusY = p.radius]

\* lines 582-590 for an object without children, with scale 1: the object
\* itself ("self") or None
CirclePointInObjOut(p, x, y) ==
    IF InEllipse(x, y, CircleCentre, p.radiusX * 1, p.radiusY * 1) THEN "self" ELSE "None"

NoCircleCall == [op |-> "init", x |-> 0, y |-> 0, ret |-> "None"]

CircleInit ==
    /\ \E r \in Radii : circle_props = CircleConstructed(r)
    /\ circle_call = NoCircleCall

\* lines 476-492 on a visible circle: of what render does, customrender
\* (lines 599-602) changes the props
CircleRender ==
    /\ circle_props' = CustomRendered(circle_props)
    /\ circle_call' = [NoCircleCall EXCEPT !.op = "render"]
    /\ UNCHANGED nonCircleVars

\* the application assigns props['radius'], the property lines 600-601 read
CircleSetRadius ==
    \E r \in Radii :
        /\ circle_props' = [circle_props EXCEPT !.radius = r]
        /\ circle_call' = [NoCircleCall EXCEPT !.op = "set_radius"]
        /\ UNCHANGED nonCircleVars

\* lines 582-590
CirclePointInObj ==
    \E pt \in CirclePoints :
        /\ circle_call' = [op |-> "point_in_obj", x |-> pt[1], y |-> pt[2],
                           ret |-> CirclePointInObjOut(circle_props, pt[1], pt[2])]
        /\ UNCHANGED <<circle_props, nonCircleVars>>

CircleNext ==
    \/ CircleRender
    \/ CircleSetRadius
    \/ CirclePointInObj

\* ============================================================ Part V, claims
\* the point of the last call lies within radius r of the centre
WithinRadius(r) ==
    (circle_call.x - CircleCentre[1]) * (circle_call.x - CircleCentre[1])
        + (circle_call.y - CircleCentre[2]) * (circle_call.y - CircleCentre[2])
    <= r * r

\* C23: for a CircleObject with radius r, scale 1 and no parent at (cx, cy),
\* point_in_obj(x, y, t) matches exactly when (x-cx)^2 + (y-cy)^2 <= r^2, in
\* every state of the node: after construction, after render passes, after
\* the radius was updated.
C23_CircleHitTest ==
    circle_call.op = "point_in_obj" =>
        (circle_call.ret = "self" <=> WithinRadius(circle_props.radius))

\* =================================================================== Part VI
\* One JSDraw batch.  A command of self._commands is its format string and its
\* keyword dict: the operation, the property or function it names, the
\* placeholders of the format string in their order, and the dict as the
\* sequence of its (key, value) entries in dict order.  A value is a number or
\* a string; the string of a colour 'rgba(r, g, b, a)' carries its channels.

\* ------------------------------------------------------------------ bounds
\* a call appends to a batch that holds fewer commands than this
MaxBatch == 3
\* the number of render calls in a row
MaxSends == 2

\* ------------------------------------------------------------------ values
Num(n) == [kind |-> "num", n |-> n, s |-> "", ch |-> << >>]

Str(str) == [kind |-> "str", n |-> 0, s |-> str, ch |-> << >>]

\* the string 'rgba(r, g, b, a)'
Rgba(ch) == [kind |-> "str", n |-> 0, s |-> "rgba", ch |-> ch]

\* an entry of a keyword dict
Kw(k, v) == [k |-> k, v |-> v]

\* lines 19-24: DRAWING_FUNCS, the argument names of each drawing function
ArgNames(func) ==
    CASE func = "ellipse" -> <<"x", "y", "radiusX", "radiusY", "rotation", "startAngle",
                               "endAngle", "counterclockwise">>
      [] func = "image" -> <<"image_name", "x", "y", "w", "h", "filter_str">>
      [] func = "line" -> <<"x1", "y1", "x2", "y2">>
      [] func = "roundRect" -> <<"x", "y", "width", "height", "radii">>
      [] func = "text" -> <<"x", "y", "text_str">>

\* lines 27-35
DRAWING_PROPS_STR == {"fillStyle", "font", "lineWidth", "strokeStyle", "strokeStyleObj",
                      "textAlign", "textBaseline"}

\* lines 38-41
DRAWING_PROPS == {"lineWidth", "fillStyleObj"}

\* line 44
ALL_DRAWING_PROPS == DRAWING_PROPS \cup DRAWING_PROPS_STR

\* the first n positional arguments of a call, the numbers 1 to n
Positional(n) == [i \in 1..n |-> Num(i)]

\* the shape-draw calls made on the batch: those of the customrender methods
\* (lines 579, 622, 650 and 687), the partial_func(lineWidth=i,
\* strokeStyle=color_glow) of line 459, a line with overrides, a line that
\* lacks two arguments and a line with one argument too many
ShapeCalls ==
    { [func |-> "ellipse", args |-> Positional(8), kwargs |-> << >>],
      [func |-> "roundRect", args |-> Positional(5), kwargs |-> << >>],
      [func |-> "image", args |-> Positional(5), kwargs |-> << Kw("filter_str", Str("")) >>],
      [func |-> "text", args |-> << >>,
       kwargs |-> << Kw("text_str", Str("ABCD")), Kw("x", Num(1)), Kw("y", Num(2)),
                     Kw("fillStyle", Str("white")) >>],
      [func |-> "ellipse", args |-> Positional(8),
       kwargs |-> << Kw("lineWidth", Num(1)), Kw("strokeStyle", Rgba(<<0, 0, 0, 0>>)) >>],
      [func |-> "line", args |-> Positional(4),
       kwargs |-> << Kw("fillStyleObj", Str("gradient")), Kw("lineWidth", Num(3)) >>],
      [func |-> "line", args |-> Positional(2), kwargs |-> << >>],
      [func |-> "line", args |-> Positional(5), kwargs |-> << >>] }

\* the drawing properties the model assigns, and their values
PropAssignments ==
    { Kw("fillStyle", Str("white")), Kw("lineWidth", Num(2)),
      Kw("fillStyleObj", Str("gradient")) }

\* ------------------------------------------------------------ the functions
\* a command of self._commands
Command(op, what, names, kwargs) ==
    [op |-> op, what |-> what, names |-> names, kwargs |-> kwargs]

HasKw(kw, k) == \E i \in 1..Len(kw) : kw[i].k = k

\* kw[k]
ValueOf(kw, k) == kw[CHOOSE i \in 1..Len(kw) : kw[i].k = k].v

\* kw[k] = v: a dict assignment, which keeps the position of a key it holds
KwPut(kw, k, v) ==
    IF HasKw(kw, k)
    THEN [i \in 1..Len(kw) |-> IF kw[i].k = k THEN Kw(k, v) ELSE kw[i]]
    ELSE Append(kw, Kw(k, v))

\* line 174 (and line 170, line 162): context_save, context_restore and clear
\* append one command that names no property
Plain(op) == Command(op, "", <<"context_name">>, << Kw("context_name", Str("w")) >>)

\* lines 97-114: the command __setattr__ appends for a drawing property; a
\* property that ends with Obj is assigned under its name without Obj
SetAttr(key, value) ==
    LET prop_name == IF key \in {"fillStyleObj", "strokeStyleObj"}
                     THEN SubSeq(key, 1, Len(key) - 3) ELSE key
    IN  Command("set", prop_name, <<"context_name", "prop_name", "value">>,
                << Kw("context_name", Str("w")), Kw("prop_name", Str(prop_name)),
                   Kw("value", value) >>)

\* lines 129-133: the positional arguments enter the keyword dict under the
\* names of the function's arguments, then the context name
RECURSIVE WithArgs(_, _, _, _)
WithArgs(kw, names, args, i) ==
    IF i > Len(args) THEN KwPut(kw, "context_name", Str("w"))
    ELSE WithArgs(KwPut(kw, names[i], args[i]), names, args, i + 1)

\* lines 149-152: the entries of the keyword dict applied as overrides, in
\* dict order: those whose key is in DRAWING_PROPS
Overrides(kw) == SelectSeq(kw, LAMBDA e : e.k \in DRAWING_PROPS)

\* lines 118-158: the commands a drawing function appends
ProxyFuncHandler(call) ==
    LET names == ArgNames(call.func)
        kw == WithArgs(call.kwargs, names, call.args, 1)
        over == Overrides(kw)
    IN  << Plain("save") >>
        \o [i \in 1..Len(over) |-> SetAttr(over[i].k, over[i].v)]
        \o << Command("draw", call.func, <<"context_name">> \o names,
                      SelectSeq(kw, LAMBDA e : ~HasKw(over, e.k))) >>
        \o << Plain("restore") >>

\* line 130 raises IndexError for a positional argument that has no name
ProxyFuncHandlerRaises(call) == Len(call.args) > Len(ArgNames(call.func))

\* line 223: c[0].format(**c[1]) raises KeyError when the dict lacks a
\* placeholder
Formattable(c) == \A i \in 1..Len(c.names) : HasKw(c.kwargs, c.names[i])

\* line 223: the text of a command, its placeholders filled in their order
Format(c) ==
    [op |-> c.op, what |-> c.what,
     vals |-> [i \in 1..Len(c.names) |-> ValueOf(c.kwargs, c.names[i])]]

\* line 226
Flip == [op |-> "flip", what |-> "", vals |-> << Str("w"), Str("t") >>]

\* lines 220-227: the payload, the commands in their order and the flip
Payload(cmds) == [i \in 1..Len(cmds) |-> Format(cmds[i])] \o << Flip >>

\* lines 424-435: color_decode
ColorDecode(v) == IF v.s = "rgba" /\ Len(v.ch) = 4 THEN v.ch ELSE <<0, 0, 0, 0>>

\* lines 416-422 and 437-439: color_calculate_glow
ColorCalculateGlow(v, glow_attenuation) ==
    Rgba([i \in 1..4 |-> ColorDecode(v)[i] * glow_attenuation[i]])

\* the objects draw_glow is called on: the props it reads
GlowObjects ==
    { [glow |-> FALSE, glow_width |-> 3, strokeStyle |-> Str("black"),
       glow_attenuation |-> <<2, 2, 2, 1>>],
      [glow |-> TRUE, glow_width |-> 3, strokeStyle |-> Str("black"),
       glow_attenuation |-> <<2, 2, 2, 1>>],
      [glow |-> TRUE, glow_width |-> 2, strokeStyle |-> Rgba(<<10, 20, 30, 1>>),
       glow_attenuation |-> <<2, 2, 2, 1>>] }

\* lines 449-462: the commands draw_glow appends for
\* partial_func = partial(f.ellipse, 1, ..., 8): the strokes of widths
\* 1 .. glow_width - 1 (range(1, glow_width)), then the hard border
DrawGlowOut(o) ==
    LET RECURSIVE Strokes(_)
        Strokes(i) ==
            IF i >= o.glow_width THEN << >>
            ELSE ProxyFuncHandler(
                     [func |-> "ellipse", args |-> Positional(8),
                      kwargs |-> << Kw("lineWidth", Num(i)),
                                    Kw("strokeStyle",
                                       ColorCalculateGlow(o.strokeStyle,
                                                          o.glow_attenuation)) >>])
                 \o Strokes(i + 1)
    IN  (IF o.glow THEN Strokes(1) ELSE << >>)
        \o ProxyFuncHandler([func |-> "ellipse", args |-> Positional(8), kwargs |-> << >>])

\* a call on the batch
JCall(op, call, clear, exc) ==
    [op |-> op, call |-> call, clear |-> clear, raised |-> exc, before |-> commands]

NoShape == [func |-> "", args |-> << >>, kwargs |-> << >>]

\* ---------------------------------------------------------------- Init
\* JSDraw('w', 't'), lines 46-56
DrawInit ==
    /\ commands = << >>
    /\ sent = << >>
    /\ jcall = [op |-> "init", call |-> NoShape, clear |-> FALSE, raised |-> "none",
                before |-> << >>]

\* ------------------------------------------------------------- the methods
\* lines 118-158: f.ellipse(...), f.image(...), f.line(...), f.roundRect(...)
\* or f.text(...), a call that returns
ShapeDraw ==
    \E call \in ShapeCalls :
        /\ Len(commands) < MaxBatch
        /\ ~ProxyFuncHandlerRaises(call)
        /\ commands' = commands \o ProxyFuncHandler(call)
        /\ sent' = << >>
        /\ jcall' = JCall("shape", call, FALSE, "none")
        /\ UNCHANGED nonDrawVars

\* lines 118-158, a call that raises at line 130
ShapeDrawRaises ==
    \E call \in ShapeCalls :
        /\ Len(commands) < MaxBatch
        /\ ProxyFuncHandlerRaises(call)
        /\ sent' = << >>
        /\ jcall' = JCall("shape", call, FALSE, "IndexError")
        /\ UNCHANGED <<commands, nonDrawVars>>

\* lines 74-116: f.fillStyle = value and the like
SetDrawingProp ==
    \E a \in PropAssignments :
        /\ Len(commands) < MaxBatch
        /\ commands' = Append(commands, SetAttr(a.k, a.v))
        /\ sent' = << >>
        /\ jcall' = JCall("setattr", [NoShape EXCEPT !.kwargs = << a >>], FALSE, "none")
        /\ UNCHANGED nonDrawVars

\* lines 160-162, 168-170 and 172-174: clear, context_restore, context_save
PlainCommand ==
    \E op \in {"clear", "restore", "save"} :
        /\ Len(commands) < MaxBatch
        /\ commands' = Append(commands, Plain(op))
        /\ sent' = << >>
        /\ jcall' = JCall(op, NoShape, FALSE, "none")
        /\ UNCHANGED nonDrawVars

\* lines 449-462: draw_glow of a render object, on a drawing function of the
\* batch
DrawGlow ==
    \E o \in GlowObjects :
        /\ Len(commands) < MaxBatch
        /\ commands' = commands \o DrawGlowOut(o)
        /\ sent' = << >>
        /\ jcall' = JCall("draw_glow",
                          [NoShape EXCEPT !.func = "ellipse",
                                          !.kwargs = << Kw("glow", Num(IF o.glow THEN 1 ELSE 0)),
                                                        Kw("glow_width", Num(o.glow_width)),
                                                        Kw("strokeStyle", o.strokeStyle) >>],
                          FALSE, "none")
        /\ UNCHANGED nonDrawVars

\* lines 164-166
ClearRenderer ==
    /\ commands # << >>
    /\ commands' = << >>
    /\ sent' = << >>
    /\ jcall' = JCall("clear_renderer", NoShape, FALSE, "none")
    /\ UNCHANGED nonDrawVars

\* line 232 never clears
RenderedCommandsKept(cmds, clear) == cmds

\* lines 231-232
RenderedCommands(cmds, clear) == IF clear THEN << >> ELSE cmds

\* lines 207-232: render(jsc, clear), a call that returns
JSRender ==
    \E clear \in BOOLEAN :
        /\ Len(sent) < MaxSends
        /\ \A i \in 1..Len(commands) : Formattable(commands[i])
        /\ sent' = Append(sent, [payload |-> Payload(commands), clear |-> clear])
        /\ commands' = RenderedCommands(commands, clear)
        /\ jcall' = JCall("render", NoShape, clear, "none")
        /\ UNCHANGED nonDrawVars

\* lines 221-225: a command lacks a placeholder, and render raises KeyError
\* before anything is sent
JSRenderFormatRaises ==
    \E clear \in BOOLEAN :
        /\ Len(sent) < MaxSends
        /\ \E i \in 1..Len(commands) : ~Formattable(commands[i])
        /\ jcall' = JCall("render", NoShape, clear, "KeyError")
        /\ UNCHANGED <<commands, sent, nonDrawVars>>

\* line 230: jsc.eval_js_code raises, and line 232 is not reached
JSRenderSendRaises ==
    \E clear \in BOOLEAN :
        /\ Len(sent) < MaxSends
        /\ \A i \in 1..Len(commands) : Formattable(commands[i])
        /\ jcall' = JCall("render", NoShape, clear, "Exception")
        /\ UNCHANGED <<commands, sent, nonDrawVars>>

DrawNext ==
    \/ ShapeDraw
    \/ ShapeDrawRaises
    \/ SetDrawingProp
    \/ PlainCommand
    \/ DrawGlow
    \/ ClearRenderer
    \/ JSRender
    \/ JSRenderFormatRaises
    \/ JSRenderSendRaises

\* =========================================================== Part VI, claims
\* the commands the last call appended
AppendedCommands == SubSeq(commands, Len(jcall.before) + 1, Len(commands))

\* the operation of a command and the property or function it names
Outline(cmds) == [i \in 1..Len(cmds) |-> <<cmds[i].op, cmds[i].what>>]

\* the style overrides passed to a call, in the order they were passed: the
\* keyword arguments that name a drawing property
StyleOverrides(call) == SelectSeq(call.kwargs, LAMBDA e : e.k \in ALL_DRAWING_PROPS)

\* the property an override assigns
Assigned(k) == IF k \in {"fillStyleObj", "strokeStyleObj"} THEN SubSeq(k, 1, Len(k) - 3) ELSE k

\* C27: every shape-draw call appends, in this order, a state save, one
\* property assignment for each style override passed to the call, the draw
\* operation with its arguments in the declared order, and a state restore,
\* and nothing else.
C27_ShapeDrawCommands ==
    (jcall.op = "shape" /\ jcall.raised = "none") =>
        LET over == StyleOverrides(jcall.call)
        IN  /\ Outline(AppendedCommands)
                 = << <<"save", "">> >>
                   \o [i \in 1..Len(over) |-> <<"set", Assigned(over[i].k)>>]
                   \o << <<"draw", jcall.call.func>>, <<"restore", "">> >>
            /\ AppendedCommands[Len(AppendedCommands) - 1].names
                 = <<"context_name">> \o ArgNames(jcall.call.func)

MaxNames == 3
\* the number of connected viewers
MaxViewers == 2
\* the number of cycles of the refresh loop
MaxCycles == 2

\* ------------------------------------------------------------ get_tooltip
\* what a renderer's get_tooltip does: it returns a text, it raises, or it
\* returns None, which line 200 cannot add to a string (TypeError)
TooltipBehaviours == {"returns", "raises", "returns None"}

\* the names a caller passes: the registered renderers and another name
LayerNames == Renderers \cup {"unregistered"}

RECURSIVE NameLists(_)
NameLists(n) ==
    IF n = 0 THEN {<< >>}
    ELSE NameLists(n - 1)
         \cup {Append(l, x) : l \in {m \in NameLists(n - 1) : Len(m) = n - 1},
                              x \in LayerNames}

\* line 200 without the handler of lines 201-202: nothing is added for a
\* renderer that raises
PieceWithoutError(name) ==
    IF tooltip_of[name] = "returns" THEN << [renderer |-> name, text |-> "tooltip"] >>
    ELSE << >>

\* lines 199-202: what the renderer of a name adds to html, its text or
\* repr(e) + '<br>'
Piece(name) ==
    IF tooltip_of[name] = "returns" THEN << [renderer |-> name, text |-> "tooltip"] >>
    ELSE << [renderer |-> name, text |-> "repr(e)<br>"] >>

\* lines 196-203: the html of the names from the i-th on
RECURSIVE GetTooltipOut(_, _)
GetTooltipOut(layer_names, i) ==
    IF i > Len(layer_names) THEN << >>
    ELSE (IF layer_names[i] \in Renderers THEN Piece(layer_names[i]) ELSE << >>)
         \o GetTooltipOut(layer_names, i + 1)

NoTooltip == [op |-> "init", layer_names |-> << >>, html |-> << >>, raised |-> "none"]

TipInit ==
    /\ tooltip_of \in [Renderers -> TooltipBehaviours]
    /\ tooltip = NoTooltip

\* lines 195-203
GetTooltip ==
    \E layer_names \in NameLists(MaxNames) :
        /\ tooltip' = [op |-> "get_tooltip", layer_names |-> layer_names,
                       html |-> GetTooltipOut(layer_names, 1), raised |-> "none"]
        /\ UNCHANGED <<tooltip_of, nonTipVars>>

\* a renderer's get_tooltip is replaced, or the data it reads changes
TooltipChanges ==
    \E r \in Renderers, b \in TooltipBehaviours :
        /\ tooltip_of[r] # b
        /\ tooltip_of' = [tooltip_of EXCEPT ![r] = b]
        /\ tooltip' = NoTooltip
        /\ UNCHANGED nonTipVars

TipNext ==
    \/ GetTooltip
    \/ TooltipChanges

\* -------------------------------------------------------- the refresh loop
\* get_broadcast_jsclients('/')
Viewers == [i \in 1..MaxViewers |-> i]

\* the refreshes of a cycle, in the order of lines 412-476
Refreshes == <<"render", "tooltip", "property", "status">>

\* lines 417, 431, 466 and 474: does the refresh visit the viewer
Visits(refresh, v) ==
    CASE refresh \in {"render", "tooltip"} -> "ROOT_RENDER_OBJECT" \in tags[v]
      [] refresh = "property" -> "property_window" \in tags[v]
      [] refresh = "status" -> TRUE

\* what comes after a refresh
After(refresh) ==
    CASE refresh = "render" -> "tooltip"
      [] refresh = "tooltip" -> "property"
      [] refresh = "property" -> "status"
      [] refresh = "status" -> "sleep"

\* the exceptions a pass raises: line 442 raises TypeError when the pointer
\* rests, for point_in_obj returns an object or None and no collection; the
\* calls on the viewer (lines 418-425, 433, 450-460, 467-470, 475) raise what
\* the transport, the renderers' objects or the tree raise
PassExceptions(refresh) ==
    IF refresh = "tooltip" THEN {"TypeError", "Exception"} ELSE {"Exception"}

NoFailure == [refresh |-> "", viewer |-> 0, exc |-> "none"]

\* the thread as line 397 starts it, lines 402-405: every last_..._time is 0;
\* a viewer that is ready holds its tree under ROOT_RENDER_OBJECT (line 382)
AppInit ==
    /\ tags \in [1..MaxViewers -> {{}, {"ROOT_RENDER_OBJECT"}}]
    /\ app_pc = "loop"
    /\ app_at = "if"
    /\ jscs = << >>
    /\ recent = {}
    /\ passes = {}
    /\ failure = NoFailure
    /\ slept = "none"
    /\ cycles = 0

\* lines 408-411: a cycle begins
AppLoopTop ==
    /\ app_pc = "loop"
    /\ cycles < MaxCycles
    /\ app_pc' = "render"
    /\ app_at' = "if"
    /\ passes' = {}
    /\ failure' = NoFailure
    /\ UNCHANGED <<tags, jscs, recent, slept, cycles, nonAppVars>>

\* lines 413, 429 and 473: the refresh is not due, its period has not passed
\* since its last_..._time
RefreshNotDue ==
    /\ app_pc \in Range(Refreshes)
    /\ app_at = "if"
    /\ app_pc \in recent
    /\ app_pc' = After(app_pc)
    /\ UNCHANGED <<tags, app_at, jscs, recent, passes, failure, slept, cycles, nonAppVars>>

\* lines 413-414, 429-430, 464-465 and 473-474: the refresh is due, and its
\* loop over the viewers begins
RefreshDue ==
    /\ app_pc \in Range(Refreshes)
    /\ app_at = "if"
    /\ app_at' = "for"
    /\ jscs' = Viewers
    /\ recent' = recent \ {app_pc}
    /\ UNCHANGED <<tags, app_pc, passes, failure, slept, cycles, nonAppVars>>

\* lines 417, 431 and 466: the viewer lacks the key, nothing is done for it
PassSkipped ==
    /\ app_pc \in Range(Refreshes)
    /\ app_at = "for"
    /\ jscs # << >>
    /\ ~Visits(app_pc, Head(jscs))
    /\ jscs' = Tail(jscs)
    /\ UNCHANGED <<tags, app_pc, app_at, recent, passes, failure, slept, cycles, nonAppVars>>

\* lines 417-425, 431-460, 466-470 and 475: the pass of a viewer returns
PassReturns ==
    /\ app_pc \in Range(Refreshes)
    /\ app_at = "for"
    /\ jscs # << >>
    /\ Visits(app_pc, Head(jscs))
    /\ passes' = passes \cup {[refresh |-> app_pc, viewer |-> Head(jscs)]}
    /\ jscs' = Tail(jscs)
    /\ UNCHANGED <<tags, app_pc, app_at, recent, failure, slept, cycles, nonAppVars>>

\* the pass of a viewer raises: the handler of line 480 is the only one, and
\* control leaves the loop over the viewers and the refreshes after it
PassRaises ==
    \E exc \in PassExceptions(app_pc) :
        /\ app_pc \in Range(Refreshes)
        /\ app_at = "for"
        /\ jscs # << >>
        /\ Visits(app_pc, Head(jscs))
        /\ failure' = [refresh |-> app_pc, viewer |-> Head(jscs), exc |-> exc]
        /\ app_pc' = "except"
        /\ app_at' = "if"
        /\ UNCHANGED <<tags, jscs, recent, passes, slept, cycles, nonAppVars>>

\* lines 426, 461 and 476: the loop over the viewers ends and the refresh's
\* last_..._time is set; last_property_refresh_time is set nowhere
RefreshEnd ==
    /\ app_pc \in Range(Refreshes)
    /\ app_at = "for"
    /\ jscs = << >>
    /\ recent' = IF app_pc = "property" THEN recent ELSE recent \cup {app_pc}
    /\ app_pc' = After(app_pc)
    /\ app_at' = "if"
    /\ UNCHANGED <<tags, jscs, passes, failure, slept, cycles, nonAppVars>>

\* line 479: time.sleep(0.01)
AppSleep ==
    /\ app_pc = "sleep"
    /\ app_pc' = "loop"
    /\ slept' = "0.01"
    /\ cycles' = cycles + 1
    /\ UNCHANGED <<tags, app_at, jscs, recent, passes, failure, nonAppVars>>

\* lines 480-482: print(e) and time.sleep(60), longer than every period
AppExcept ==
    /\ app_pc = "except"
    /\ app_pc' = "loop"
    /\ jscs' = << >>
    /\ recent' = {}
    /\ slept' = "60"
    /\ cycles' = cycles + 1
    /\ UNCHANGED <<tags, app_at, passes, failure, nonAppVars>>

AppNext ==
    \/ AppLoopTop
    \/ RefreshNotDue
    \/ RefreshDue
    \/ PassSkipped
    \/ PassReturns
    \/ PassRaises
    \/ RefreshEnd
    \/ AppSleep
    \/ AppExcept

\* ========================================================== Part VII, claims
\* the places of layer_names that hold a registered name
RegisteredPlaces(layer_names) == {i \in 1..Len(layer_names) : layer_names[i] \in Renderers}

\* C29: get_tooltip queries every renderer whose name is in layer_names and
\* registered, skips names that are not registered, and returns the
\* concatenation of their texts; a renderer that raises has its error text in
\* the result in its place, the remaining renderers are still queried, and
\* get_tooltip itself does not raise.
C29_TooltipFansOut ==
    tooltip.op = "get_tooltip" =>
        LET places == RegisteredPlaces(tooltip.layer_names)
        IN  /\ tooltip.raised = "none"
            /\ Len(tooltip.html) = Cardinality(places)
            /\ \A i \in places :
                  LET at == Cardinality({j \in places : j <= i})
                      name == tooltip.layer_names[i]
                  IN  /\ tooltip.html[at].renderer = name
                      /\ tooltip.html[at].text
                           = IF tooltip_of[name] = "returns" THEN "tooltip"
                             ELSE "repr(e)<br>"

\* the first renderer asked raises, the next name is not registered, and the
\* text of the renderer after it is in the result
C29_Witness ==
    /\ tooltip.op = "get_tooltip"
    /\ Len(tooltip.layer_names) = 3
    /\ tooltip.layer_names[1] \in Renderers
    /\ tooltip_of[tooltip.layer_names[1]] = "raises"
    /\ tooltip.layer_names[2] \notin Renderers
    /\ tooltip.layer_names[3] \in Renderers
    /\ tooltip_of[tooltip.layer_names[3]] = "returns"
    /\ Len(tooltip.html) = 2
    /\ tooltip.html[1].text = "repr(e)<br>"
    /\ tooltip.html[2].text = "tooltip"

\* C30: when the refresh pass for one connected viewer raises, only that
\* viewer's iteration is affected: the other viewers are still refreshed in
\* the same cycle, and the refresh loop as a whole is not paused.  Stated at
\* the end of a cycle in which a pass raised: every other viewer the refresh
\* visits had its pass, and the cycle did not end in the sleep of 60 seconds.
C30_FailureStaysWithViewer ==
    (app_pc = "loop" /\ failure # NoFailure) =>
        /\ \A v \in 1..MaxViewers :
              (v # failure.viewer /\ Visits(failure.refresh, v)) =>
                  [refresh |-> failure.refresh, viewer |-> v] \in passes
        /\ slept # "60"

\* ================================================================= Part VIII
\* The session setups of the viewers, LayerApp.on_ready, each in its own
\* thread, on the batch object of the plugin; and the refresh passes of
\* LayerApp.thread_worker, each on a batch of its own.  A command is written
\* with the viewer whose pass issued it.

\* ------------------------------------------------------------------ bounds
\* the number of refresh passes
MaxPasses == 1

\* ------------------------------------------------------------ the functions
\* drawingPlugin.py lines 186-188: the two commands of create_image
CreateImageCommands(v) ==
    << [op |-> "new Image", viewer |-> v], [op |-> "src", viewer |-> v] >>

\* drawingPlugin.py lines 220-229: the payload of the commands and the flip
Js(cmds, v) == Append(cmds, [op |-> "flip", viewer |-> v])

\* layerController.py lines 421-424: the commands of a refresh pass, in a
\* JSDraw made for the pass
PassCommands(v) ==
    << [op |-> "fillStyle", viewer |-> v], [op |-> "clear", viewer |-> v],
       [op |-> "tree", viewer |-> v] >>

\* where on_ready is: layerController.py lines 349-350, the render of line 351
\* in the steps of drawingPlugin.py lines 220-229, 230 and 231-232, lines
\* 354-390, and the render of line 393 in the same steps
SetupAfter(at) ==
    CASE at = "create_image" -> "render"
      [] at = "render" -> "eval_js_code"
      [] at = "eval_js_code" -> "clear_renderer"
      [] at = "clear_renderer" -> "final render"
      [] at = "final render" -> "final eval_js_code"
      [] at = "final eval_js_code" -> "final clear_renderer"
      [] at = "final clear_renderer" -> "ready"

\* the viewers connect, and nothing has been drawn
SetupInit ==
    /\ drawing = << >>
    /\ setup_pc = [v \in 1..MaxViewers |-> "create_image"]
    /\ js = [v \in 1..MaxViewers |-> << >>]
    /\ batches = [v \in 1..MaxViewers |-> << >>]
    /\ refreshes = 0

\* ------------------------------------------------------------- the setups
\* layerController.py lines 349-350: jsc.drawing() is the one JSDraw of the
\* plugin, whatever the viewer (drawingPlugin.py lines 790-791)
SetupCreateImage ==
    \E v \in 1..MaxViewers :
        /\ setup_pc[v] = "create_image"
        /\ drawing' = drawing \o CreateImageCommands(v)
        /\ setup_pc' = [setup_pc EXCEPT ![v] = SetupAfter(@)]
        /\ UNCHANGED <<js, batches, refreshes, nonSetupVars>>

\* drawingPlugin.py lines 220-229, in the renders of lines 351 and 393
SetupRenderFormat ==
    \E v \in 1..MaxViewers :
        /\ setup_pc[v] \in {"render", "final render"}
        /\ js' = [js EXCEPT ![v] = Js(drawing, v)]
        /\ setup_pc' = [setup_pc EXCEPT ![v] = SetupAfter(@)]
        /\ UNCHANGED <<drawing, batches, refreshes, nonSetupVars>>

\* drawingPlugin.py line 230
SetupRenderSend ==
    \E v \in 1..MaxViewers :
        /\ setup_pc[v] \in {"eval_js_code", "final eval_js_code"}
        /\ batches' = [batches EXCEPT ![v] = Append(@, js[v])]
        /\ setup_pc' = [setup_pc EXCEPT ![v] = SetupAfter(@)]
        /\ UNCHANGED <<drawing, js, refreshes, nonSetupVars>>

\* drawingPlugin.py lines 231-232 and 166
SetupRenderClear ==
    \E v \in 1..MaxViewers :
        /\ setup_pc[v] \in {"clear_renderer", "final clear_renderer"}
        /\ drawing' = << >>
        /\ js' = [js EXCEPT ![v] = << >>]
        /\ setup_pc' = [setup_pc EXCEPT ![v] = SetupAfter(@)]
        /\ UNCHANGED <<batches, refreshes, nonSetupVars>>

\* layerController.py lines 417-425, for a viewer whose ROOT_RENDER_OBJECT is
\* set (line 382)
RefreshPass ==
    \E v \in 1..MaxViewers :
        /\ setup_pc[v] \in {"final render", "final eval_js_code",
                            "final clear_renderer", "ready"}
        /\ refreshes < MaxPasses
        /\ refreshes' = refreshes + 1
        /\ batches' = [batches EXCEPT ![v] = Append(@, Js(PassCommands(v), v))]
        /\ UNCHANGED <<drawing, setup_pc, js, nonSetupVars>>

SetupNext ==
    \/ SetupCreateImage
    \/ SetupRenderFormat
    \/ SetupRenderSend
    \/ SetupRenderClear
    \/ RefreshPass

\* ========================================================= Part VIII, claims
\* the commands sent to a viewer
SentTo(v) == UNION {Range(batches[v][i]) : i \in 1..Len(batches[v])}

\* C35: every batch sent to a viewer holds only commands issued for that
\* viewer, and the commands a viewer's setup has issued have been sent to it
\* when its setup is over: another viewer's render has neither sent them
\* elsewhere nor cleared them
C35_BatchesStayWithViewer ==
    \A v \in 1..MaxViewers :
        /\ \A c \in SentTo(v) : c.viewer = v
        /\ setup_pc[v] = "ready" => Range(CreateImageCommands(v)) \subseteq SentTo(v)

\* ------------------------------------------------------- the specifications
\* no merge is under way
MergeIdle ==
    /\ data_dict = << >>
    /\ df_result = EmptyFrame
    /\ mstatus = "idle"

\* the scheduler as constructed and never started
SchedIdle ==
    /\ minimum_datasource_cooldown_period = 3
    /\ subscribed_datasources = [r \in Renderers |-> <<"data_coords", "values", "open">>]
    /\ next_fire_time = [s \in Sources |-> None]
    /\ SchedInit

\* the flag is never set and no status is read
CtlIdle == CtlInit

\* no viewer connects
SetupIdle == SetupInit

\* a FlightPlan as constructed, on which nothing is called
FlightIdle ==
    /\ class = "FlightPlan"
    /\ fprops = BaseFprops(None, NoKwargs)
    /\ props = EmptyProps
    /\ pre_props = EmptyProps
    /\ pause_snap = NoPause
    /\ flight = "none"
    /\ FlightInit

\* render objects as constructed, on which nothing is called
TreeIdle ==
    /\ objects = Constructed({}, "CircleObject")
    /\ TreeInit

\* a circle as constructed, on which nothing is called
CircleIdle ==
    /\ circle_props = CircleConstructed(10)
    /\ circle_call = NoCircleCall

\* a batch as constructed, on which nothing is called
DrawIdle == DrawInit

\* no get_tooltip is called
TipIdle ==
    /\ tooltip_of = [r \in Renderers |-> "returns"]
    /\ tooltip = NoTooltip

\* the refresh thread is not started
AppIdle ==
    /\ tags = [v \in 1..MaxViewers |-> {}]
    /\ AppInit

Init == SchedInit /\ MergeIdle /\ FlightIdle /\ TreeIdle /\ CircleIdle /\ DrawIdle
    /\ TipIdle /\ AppIdle /\ CtlIdle /\ SetupIdle

Next == SchedNext

\* Part I: the scheduler and the workers
Spec == Init /\ [][Next]_vars

\* the registry of LayerApp (line 284: a minimum cooldown of 3), every source
\* registered with next_fire_time None or left at its default
ControllerSpecInit ==
    /\ SchedStart
    /\ minimum_datasource_cooldown_period = 3
    /\ subscribed_datasources["text"] # <<"data_coords", "values", "open">>
    /\ next_fire_time["data_coords"] = None
    /\ CtlInit
    /\ MergeIdle /\ FlightIdle /\ TreeIdle /\ CircleIdle /\ DrawIdle /\ TipIdle /\ AppIdle
    /\ SetupIdle

\* Part I: the scheduler, the workers and the shutdown flag
SpecController == ControllerSpecInit /\ [][ControllerNext]_vars

\* the registry of LayerApp with the example's disabled source
StatusSpecInit ==
    /\ SchedInit
    /\ minimum_datasource_cooldown_period = 3
    /\ subscribed_datasources["text"] = <<"open", "unregistered">>
    /\ CtlInit
    /\ MergeIdle /\ FlightIdle /\ TreeIdle /\ CircleIdle /\ DrawIdle /\ TipIdle /\ AppIdle
    /\ SetupIdle

\* Part I: the scheduler, the workers and the status reader
SpecStatus == StatusSpecInit /\ [][StatusNext]_vars

\* a registry whose three sources are left at the default next_fire_time, under
\* a minimum cooldown of 6
PollSpecInit ==
    /\ SchedStart
    /\ minimum_datasource_cooldown_period = 6
    /\ subscribed_datasources["text"] = <<"open", "unregistered">>
    /\ next_fire_time = [s \in Sources |-> Epoch]
    /\ CtlIdle
    /\ MergeIdle /\ FlightIdle /\ TreeIdle /\ CircleIdle /\ DrawIdle /\ TipIdle /\ AppIdle
    /\ SetupIdle

\* Part I: the scheduler and the workers, three fetches at a time
SpecPoll == PollSpecInit /\ [][SchedNext]_vars

MergeSpecInit == SchedIdle /\ MergeInit /\ FlightIdle /\ TreeIdle /\ CircleIdle /\ DrawIdle
    /\ TipIdle /\ AppIdle /\ CtlIdle /\ SetupIdle

\* Part II: calls of _data_dict_to_df
SpecMerge == MergeSpecInit /\ [][MergeNext]_vars

FlightSpecInit == SchedIdle /\ MergeIdle /\ FlightInit /\ TreeIdle /\ CircleIdle /\ DrawIdle
    /\ TipIdle /\ AppIdle /\ CtlIdle /\ SetupIdle

\* Part III: calls on one flight plan
SpecFlight == FlightSpecInit /\ [][FlightNext]_vars

TreeSpecInit == SchedIdle /\ MergeIdle /\ FlightIdle /\ TreeInit /\ CircleIdle /\ DrawIdle
    /\ TipIdle /\ AppIdle /\ CtlIdle /\ SetupIdle

\* Part IV: calls on the render objects
SpecTree == TreeSpecInit /\ [][TreeNext]_vars

HitSpecInit == SchedIdle /\ MergeIdle /\ FlightIdle /\ HitInit /\ CircleIdle /\ DrawIdle
    /\ TipIdle /\ AppIdle /\ CtlIdle /\ SetupIdle

\* Part IV: hit tests on the render objects
SpecHit == HitSpecInit /\ [][HitNext]_vars

PropsSpecInit == SchedIdle /\ MergeIdle /\ FlightIdle /\ PropsInit /\ CircleIdle /\ DrawIdle
    /\ TipIdle /\ AppIdle /\ CtlIdle /\ SetupIdle

\* Part IV: hit tests on the objects of a built scene, between assignments of
\* their visible and clickable properties
SpecProps == PropsSpecInit /\ [][PropsNext]_vars

CircleSpecInit == SchedIdle /\ MergeIdle /\ FlightIdle /\ TreeIdle /\ CircleInit /\ DrawIdle
    /\ TipIdle /\ AppIdle /\ CtlIdle /\ SetupIdle

\* Part V: calls on one circle
SpecCircle == CircleSpecInit /\ [][CircleNext]_vars

DrawSpecInit == SchedIdle /\ MergeIdle /\ FlightIdle /\ TreeIdle /\ CircleIdle /\ DrawInit
    /\ TipIdle /\ AppIdle /\ CtlIdle /\ SetupIdle

\* Part VI: calls on one command batch
SpecDraw == DrawSpecInit /\ [][DrawNext]_vars

TipSpecInit == SchedIdle /\ MergeIdle /\ FlightIdle /\ TreeIdle /\ CircleIdle /\ DrawIdle
    /\ TipInit /\ AppIdle /\ CtlIdle /\ SetupIdle

\* Part VII: calls of get_tooltip
SpecTooltip == TipSpecInit /\ [][TipNext]_vars

AppSpecInit == SchedIdle /\ MergeIdle /\ FlightIdle /\ TreeIdle /\ CircleIdle /\ DrawIdle
    /\ TipIdle /\ AppInit /\ CtlIdle /\ SetupIdle

\* Part VII: the refresh loop
SpecApp == AppSpecInit /\ [][AppNext]_vars

SetupSpecInit == SchedIdle /\ MergeIdle /\ FlightIdle /\ TreeIdle /\ CircleIdle /\ DrawIdle
    /\ TipIdle /\ AppIdle /\ CtlIdle /\ SetupInit

\* Part VIII: the session setups and the refresh passes
SpecSetup == SetupSpecInit /\ [][SetupNext]_vars

====
